---- MODULE Spec2Model ----
(***************************************************************************)
(* The permission-negotiation protocol of DM-Plz: the PermissionRequest    *)
(* hook (server/src/permission-hook.ts) and the requestPermission methods  *)
(* of its two chat providers (providers/telegram.ts, providers/discord.ts).*)
(*                                                                         *)
(* Every hook run is one operating-system process.  The processes share    *)
(* the files of one host: the user-lock token, the cascade-state file, the *)
(* session-cache file, the rejection log and its sibling lock file.        *)
(*                                                                         *)
(* Time is counted in units of 100 ms.  Computation takes no time; time    *)
(* passes only while every started process is blocked in a setTimeout      *)
(* sleep or in a Telegram long poll, or has not been started yet, and it   *)
(* passes from one instant at which something can happen to the next.      *)
(***************************************************************************)
EXTENDS Integers, Sequences, FiniteSets, TLC

(***************************************************************************)
(* Bounds of the model and configuration values (environment variables).   *)
(***************************************************************************)
MaxTime == 100               \* the clock stops here
MaxStart == 60               \* hook processes are started at or before this time
EnvQuantum == 20             \* grid of the instants at which the environment acts
QuestionTimeoutMs == 60      \* DMPLZ_QUESTION_TIMEOUT_MS, in 100 ms units
RejectReasonTimeoutMs == 25  \* DMPLZ_REJECT_REASON_TIMEOUT_MS, in 100 ms units
RejectReasonMaxChars == 1    \* DMPLZ_REJECT_REASON_MAX_CHARS
SecretMaxChars == 7          \* a DMPLZ_REJECT_REASON_MAX_CHARS that keeps the reason token=a whole
RotateBytes == 1             \* DMPLZ_REJECT_REASON_LOG_ROTATE_BYTES, in log lines
MaxFiles == 1                \* DMPLZ_REJECT_REASON_LOG_MAX_FILES
MaxSignals == 2              \* decision signals the operator gives to one prompt
MaxRotateBytes == 1          \* the rotation thresholds of the log alone: 0..MaxRotateBytes
MaxGenerations == 2          \* the generations of the log alone: 1..MaxGenerations
MaxAppends == 5              \* the appends to the log alone
MaxLateInputs == 2           \* inputs the operator gives to the prompt of an expired request

(***************************************************************************)
(* Program constants, in 100 ms units.                                     *)
(***************************************************************************)
REJECT_CASCADE_WINDOW_MS == 50   \* 5 * 1000 ms
LockPollMs == 2                  \* setTimeout(resolve, 200) in acquireUserLock
LogLockTimeoutMs == 20           \* const timeoutMs = 2000 in withLogLock
LogLockPollMs == 1               \* setTimeout(resolve, 100) in withLogLock
DiscordPollInterval == 20        \* const pollInterval = 2000
DiscordReactionDelay == 5        \* setTimeout(resolve, 500) between addReaction calls
TelegramPollTimeout == 100       \* const pollTimeout = 10 (seconds)
SessionCacheTtlMs == 864000      \* 24 * 60 * 60 * 1000 ms
LongTokenLength == 32            \* {32,} in longTokenPattern
DefaultRejectReasonMaxChars == 300  \* parseNumberEnv(.., 300)

Procs == {1, 2}              \* the hook processes (requests) of one run of the model
Providers == {"telegram", "discord"}
Tools == {"Bash", "Write", "AskUserQuestion"}
Decisions == {"approve", "approve_session", "reject"}

None == "none"
NoFile == [exists |-> FALSE]     \* a file that does not exist
NoMessage == <<>>                \* an undefined message

Max2(a, b) == IF a >= b THEN a ELSE b
Min2(a, b) == IF a <= b THEN a ELSE b
Range(s) == {s[i] : i \in 1..Len(s)}

(***************************************************************************)
(* Reason texts are sequences of characters.                               *)
(***************************************************************************)
ReasonTexts == { <<>>, <<" ", "a", "b">>, <<"N", " ">> }

RECURSIVE TrimLeft(_)
TrimLeft(s) == IF s # <<>> /\ Head(s) = " " THEN TrimLeft(Tail(s)) ELSE s

RECURSIVE TrimRight(_)
TrimRight(s) ==
    IF s # <<>> /\ s[Len(s)] = " " THEN TrimRight(SubSeq(s, 1, Len(s) - 1)) ELSE s

Trim(s) == TrimRight(TrimLeft(s))

NormalizeRejectReason(reason, maxChars) ==
    LET trimmed == Trim(reason)
    IN  IF Len(trimmed) <= maxChars THEN trimmed ELSE SubSeq(trimmed, 1, maxChars)

\* resolveReasonSource that returns the source the provider reported.
ResolveReasonSourceAsReported(reason, reasonSource) == reasonSource

ResolveReasonSource(reason, reasonSource) ==
    IF reasonSource = "timeout" THEN "timeout"
    ELSE IF reasonSource = "user_input" /\ Len(reason) = 0 THEN "explicit_skip"
    ELSE reasonSource

\* The three deny messages of the hook, and the default of outputResult.
MsgTimeout == <<"User rejected the request. (No reason provided: timeout)">>
MsgNoReason == <<"User rejected the request. (No reason provided)">>
MsgReason(reason) == <<"User rejected the request. Reason: ", reason>>
MsgDefault == <<"User rejected the request.">>

\* buildDenyMessage without its timeout branch.
BuildDenyMessageNoTimeout(reason, reasonSource) ==
    IF reasonSource = "explicit_skip" \/ Len(reason) = 0 THEN MsgNoReason
    ELSE MsgReason(reason)

BuildDenyMessage(reason, reasonSource) ==
    IF reasonSource = "timeout" THEN MsgTimeout
    ELSE IF reasonSource = "explicit_skip" \/ Len(reason) = 0 THEN MsgNoReason
    ELSE MsgReason(reason)

BuildRejectionSystemMessage(reason, reasonSource) ==
    LET trimmedReason == Trim(reason)
    IN  IF reasonSource = "user_input" /\ Len(trimmedReason) > 0
        THEN <<"new instruction", trimmedReason>>
        ELSE <<"ask the user for the next instruction">>

\* outputResult(approved, message, interrupt, systemMessage): the decision object.
OutputResult(approved, message, systemMessage) ==
    [ behavior |-> IF approved THEN "allow" ELSE "deny",
      message |-> IF approved THEN NoMessage
                  ELSE IF message = NoMessage THEN MsgDefault ELSE message,
      systemMessage |-> systemMessage ]


\* The letters and digits, for toLowerCase and for the character classes of
\* the regular expressions.
UpperCase == <<"A", "B", "C", "D", "E", "F", "G", "H", "I", "J", "K", "L", "M", "N", "O", "P", "Q", "R", "S", "T", "U", "V", "W", "X", "Y", "Z">>
LowerCase == <<"a", "b", "c", "d", "e", "f", "g", "h", "i", "j", "k", "l", "m", "n", "o", "p", "q", "r", "s", "t", "u", "v", "w", "x", "y", "z">>
Digits == {"0", "1", "2", "3", "4", "5", "6", "7", "8", "9"}

\* normalizeKeyword of the Discord provider: trim and lower-case.
ToLowerChar(c) ==
    IF \E i \in 1..Len(UpperCase) : UpperCase[i] = c
    THEN LowerCase[CHOOSE i \in 1..Len(UpperCase) : UpperCase[i] = c]
    ELSE c
NormalizeKeyword(value) == [i \in 1..Len(Trim(value)) |-> ToLowerChar(Trim(value)[i])]
RejectReasonNoReasonKeywords == { <<"n">> }   \* DMPLZ_REJECT_REASON_NO_REASON_KEYWORDS

\* waitForRejectReason of the Discord provider: the content of the message is
\* one of the normalised keywords.
IsNoReasonKeywordExact(content, keywords) == content \in keywords
IsNoReasonKeyword(content, keywords) ==
    NormalizeKeyword(content) \in { NormalizeKeyword(k) : k \in keywords }

(***************************************************************************)
(* The lock key of a process and the paths of its token and cascade state. *)
(***************************************************************************)
ProviderName(p) ==
    IF p = "telegram" THEN <<"t", "e", "l", "e", "g", "r", "a", "m">>
    ELSE <<"d", "i", "s", "c", "o", "r", "d">>

\* createUserLockKey: `${provider}-${baseId}${userSuffix}`.
CreateUserLockKey(providerName, baseId, discordDmUserId) ==
    ProviderName(providerName) \o <<"-">> \o baseId
        \o (IF discordDmUserId # <<>> THEN <<"-">> \o discordDmUserId ELSE <<>>)

\* A file name that keeps the key as it is.
SafeKeyVerbatim(lockKey) == lockKey

\* lockKey.replace(/[^a-zA-Z0-9_-]/g, '_')
SafeKey(lockKey) ==
    [i \in 1..Len(lockKey) |->
        IF \/ \E k \in 1..Len(LowerCase) : lockKey[i] \in {LowerCase[k], UpperCase[k]}
           \/ lockKey[i] \in Digits \cup {"_", "-"}
        THEN lockKey[i] ELSE "_"]

\* getUserLockPath and getCascadeStatePath, under os.tmpdir().
GetUserLockPath(lockKey) == <<"dmplz-permission-lock-">> \o SafeKey(lockKey) \o <<".lock">>
GetCascadeStatePath(lockKey) ==
    <<"dmplz-permission-cascade-">> \o SafeKey(lockKey) \o <<".json">>

(***************************************************************************)
(* The session id of a run and the path of its session cache.              *)
(***************************************************************************)
\* The input of the hook and its environment, as far as the session id reads
\* them; <<>> is a field that is missing or empty.
SessionInput(sessionId, envSessionId, cwd) ==
    [session_id |-> sessionId, CLAUDE_SESSION_ID |-> envSessionId, cwd |-> cwd]

\* getSessionId that replaces the separators of cwd.
GetSessionIdFlat(input) ==
    IF input.session_id # <<>> THEN input.session_id
    ELSE IF input.CLAUDE_SESSION_ID # <<>> THEN input.CLAUDE_SESSION_ID
    ELSE <<"session-">> \o [i \in 1..Len(input.cwd) |->
                               IF input.cwd[i] = "/" THEN "_" ELSE input.cwd[i]]

\* getSessionId: input.session_id, else CLAUDE_SESSION_ID, else `session-${cwd}`.
GetSessionId(input) ==
    IF input.session_id # <<>> THEN input.session_id
    ELSE IF input.CLAUDE_SESSION_ID # <<>> THEN input.CLAUDE_SESSION_ID
    ELSE <<"session-">> \o input.cwd

\* getSessionCachePath, relative to os.tmpdir(): `dmplz-session-${sessionId}.json`.
GetSessionCachePath(sessionId) == <<"dmplz-session-">> \o sessionId \o <<".json">>

\* The directory of a path under os.tmpdir() exists: the temporary directory
\* does, and nothing creates a directory below it (no mkdirSync for the cache).
DirectoryExists(relativePath) == \A i \in 1..Len(relativePath) : relativePath[i] # "/"

(***************************************************************************)
(* maskSensitiveText and maskToken.                                        *)
(***************************************************************************)
ToLowerCase(s) == [i \in 1..Len(s) |-> ToLowerChar(s[i])]

\* The words that (api[_-]?key|token|password|secret|access[_-]?key|authorization)
\* matches, the flag i apart.
SensitiveKeys ==
    { <<"a", "p", "i", "k", "e", "y">>,
      <<"a", "p", "i", "_", "k", "e", "y">>,
      <<"a", "p", "i", "-", "k", "e", "y">>,
      <<"t", "o", "k", "e", "n">>,
      <<"p", "a", "s", "s", "w", "o", "r", "d">>,
      <<"s", "e", "c", "r", "e", "t">>,
      <<"a", "c", "c", "e", "s", "s", "k", "e", "y">>,
      <<"a", "c", "c", "e", "s", "s", "_", "k", "e", "y">>,
      <<"a", "c", "c", "e", "s", "s", "-", "k", "e", "y">>,
      <<"a", "u", "t", "h", "o", "r", "i", "z", "a", "t", "i", "o", "n">> }

IsSpace(c) == c = " "                                      \* \s
IsHexChar(c) == c \in Digits \cup {"a", "b", "c", "d", "e", "f", "A", "B", "C", "D", "E", "F"}
IsBase64Char(c) ==
    c \in Digits \cup Range(UpperCase) \cup Range(LowerCase) \cup {"+", "/", "="}

\* maskToken that keeps a short token as it is.
MaskTokenKeepsShort(token) ==
    IF Len(token) <= 8 THEN token
    ELSE SubSeq(token, 1, 4) \o <<".", ".", ".">> \o SubSeq(token, Len(token) - 3, Len(token))

MaskToken(token) ==
    IF Len(token) <= 8 THEN <<"*", "*", "*">>
    ELSE SubSeq(token, 1, 4) \o <<".", ".", ".">> \o SubSeq(token, Len(token) - 3, Len(token))

\* The first position at or after i of s that does not hold a space (\s*).
RECURSIVE SkipSpaces(_, _)
SkipSpaces(s, i) == IF i <= Len(s) /\ IsSpace(s[i]) THEN SkipSpaces(s, i + 1) ELSE i

\* The end of the longest run of characters other than space and comma that
\* starts at i ([^\s,]+), i - 1 when there is none.
RECURSIVE ValueEnd(_, _)
ValueEnd(s, i) ==
    IF i <= Len(s) /\ ~IsSpace(s[i]) /\ s[i] # "," THEN ValueEnd(s, i + 1) ELSE i - 1

\* The match of keyValuePattern that starts at position i of s, if there is one.
KeyValueMatch(s, i) ==
    LET lengths == { k \in 1..(Len(s) - i + 1) :
                        ToLowerCase(SubSeq(s, i, i + k - 1)) \in SensitiveKeys }
    IN  IF lengths = {} THEN [found |-> FALSE]
        ELSE LET k == CHOOSE n \in lengths : TRUE
                 sep == SkipSpaces(s, i + k)
             IN  IF ~(sep <= Len(s) /\ s[sep] \in {":", "="}) THEN [found |-> FALSE]
                 ELSE LET first == SkipSpaces(s, sep + 1)
                          last == ValueEnd(s, first)
                      IN  IF last < first THEN [found |-> FALSE]
                          ELSE [found |-> TRUE, key |-> SubSeq(s, i, i + k - 1),
                                value |-> SubSeq(s, first, last), last |-> last]

\* reason.replace(keyValuePattern, ..) from position i on.
RECURSIVE MaskKeyValues(_, _)
MaskKeyValues(s, i) ==
    IF i > Len(s) THEN <<>>
    ELSE LET m == KeyValueMatch(s, i)
         IN  IF m.found
             THEN m.key \o <<"=">> \o MaskToken(m.value) \o MaskKeyValues(s, m.last + 1)
             ELSE << s[i] >> \o MaskKeyValues(s, i + 1)

\* The end of the run of hexadecimal digits, and of base64 characters, from i.
RECURSIVE HexEnd(_, _)
HexEnd(s, i) == IF i <= Len(s) /\ IsHexChar(s[i]) THEN HexEnd(s, i + 1) ELSE i - 1

RECURSIVE Base64End(_, _)
Base64End(s, i) == IF i <= Len(s) /\ IsBase64Char(s[i]) THEN Base64End(s, i + 1) ELSE i - 1

\* masked.replace(longTokenPattern, ..) from position i on: a run of at least
\* LongTokenLength hexadecimal digits, else of base64 characters.
RECURSIVE MaskLongTokens(_, _)
MaskLongTokens(s, i) ==
    IF i > Len(s) THEN <<>>
    ELSE LET hex == HexEnd(s, i)
             b64 == Base64End(s, i)
             last == IF hex - i + 1 >= LongTokenLength THEN hex
                     ELSE IF b64 - i + 1 >= LongTokenLength THEN b64
                     ELSE i - 1
         IN  IF last >= i
             THEN MaskToken(SubSeq(s, i, last)) \o MaskLongTokens(s, last + 1)
             ELSE << s[i] >> \o MaskLongTokens(s, i + 1)

MaskSensitiveText(reason) == MaskLongTokens(MaskKeyValues(reason, 1), 1)

(***************************************************************************)
(* State.                                                                  *)
(***************************************************************************)
VARIABLES
    now,           \* Date.now()
    provider,      \* config.provider (DMPLZ_PROVIDER), the same for every process
    sessionInput,  \* input.session_id, process.env.CLAUDE_SESSION_ID and input.cwd of the run
    chatId,        \* config.chatId of each process, as it is spelled (DMPLZ_PERMISSION_CHAT_ID is not set)
    toolNames,     \* the tools the agent asks permission for (input.tool_name)
    rejectReasonMaxChars,        \* config.rejectReasonMaxChars
    rejectReasonLogRotateBytes,  \* config.rejectReasonLogRotateBytes, in log lines
    rejectReasonLogMaxFiles,     \* config.rejectReasonLogMaxFiles
    proc,          \* the hook processes: position and locals of main()
    lockFile,      \* the user-lock token of the operator's key: NoFile or [createdAt, owner]
    cascadeFile,   \* the cascade-state file of the key: NoFile or a RejectCascadeState
    sessionCache,  \* the session-cache file: NoFile or [allowedTools, createdAt]
    logDir,        \* path.dirname(logPath) exists
    logLockFile,   \* `${logPath}.lock` exists
    logFile,       \* the active rejection log: NoFile or [lines]
    logRotated,    \* `${logPath}.<generation>`: NoFile or [lines]
    signals,       \* decision signals the operator gave to each request's prompt, in order
    reasonInput    \* what the operator answered to each request's reason prompt

vars == << now, provider, sessionInput, chatId, toolNames, rejectReasonMaxChars, rejectReasonLogRotateBytes,
           rejectReasonLogMaxFiles, proc, lockFile, cascadeFile, sessionCache, logDir,
           logLockFile, logFile, logRotated, signals, reasonInput >>

config ==
    << provider, sessionInput, chatId, toolNames, rejectReasonMaxChars,
       rejectReasonLogRotateBytes, rejectReasonLogMaxFiles >>
files == << lockFile, cascadeFile, sessionCache, logDir, logLockFile, logFile, logRotated >>
logFiles == << logDir, logLockFile, logFile, logRotated >>
operator == << signals, reasonInput >>

NoInput == [kind |-> None, text |-> <<>>]
NoResponse == [type |-> None, reason |-> <<>>, reasonSource |-> None]
NoOutput == [behavior |-> None, message |-> NoMessage, systemMessage |-> NoMessage]

InitProc ==
    [ pc |-> "init",             \* position in main() / requestPermission()
      tool |-> None,             \* input.tool_name
      lockStartTime |-> 0,       \* main: lockStartTime
      startTime |-> 0,           \* requestPermission: startTime; withLogLock: startTime
      timeoutMs |-> 0,           \* requestPermission: timeoutMs (effectiveTimeoutMs)
      waitTimeoutMs |-> 0,       \* requestPermission: waitTimeoutMs
      reasonStart |-> 0,         \* waitForRejectReason: startTime
      logStartTime |-> 0,        \* withLogLock: startTime
      wake |-> 0,                \* end of the current setTimeout sleep
      response |-> NoResponse,   \* main: response
      output |-> NoOutput,       \* the decision object written to stdout
      stderr |-> {},             \* diagnostic lines written to stderr
      nstate |-> None,           \* state of the negotiation (section 8.2 of the PRD)
      holdsLock |-> FALSE,       \* acquireUserLock returned and releaseLock was not called
      prompts |-> 0,             \* decision prompts sent to the operator
      reasonPrompts |-> 0,       \* reason prompts sent to the operator
      appended |-> 0,            \* lines this request appended to the rejection log
      logSeen |-> None,          \* the log and its generations when the request took the log lock
      reasonSeen |-> None,       \* the text message waitForRejectReason took as the answer
      loaded |-> NoFile,         \* saveSessionCache: cache, as loadSessionCache returned it
      reactions |-> <<>>,        \* the operator's reactions on the prompt when the poll found the decision
      outputs |-> 0,             \* decision objects written to stdout (calls of outputResult)
      lockedAtStart |-> FALSE,   \* the user lock was held when the session cache approved the request
      lateInputs |-> 0,          \* inputs the operator gave to the prompt after the request expired
      lateNotices |-> 0,         \* messages sent to the operator after the request expired
      keyed |-> FALSE,           \* getInfo succeeded: the request is a negotiation for the lock key
      approvedAtStart |-> FALSE, \* the tool was approved for the session before the request started
      cascadeAtStart |-> NoFile, \* the unexpired cascade state of the key when the request started
      reasonWaitOverran |-> FALSE,  \* the reason wait lasted longer than waitTimeoutMs
      pastDeadline |-> FALSE ]      \* the decision object was written after the deadline

\* The state before the first request of a run: the tools the agent will ask
\* for, and the files that earlier runs left on the host.
InitWith(host) ==
    /\ now = 0
    /\ provider \in host.providers
    /\ sessionInput \in host.sessions
    /\ chatId \in host.chatIds
    /\ toolNames = host.tools
    /\ rejectReasonMaxChars \in host.maxChars
    /\ rejectReasonLogRotateBytes \in host.rotateBytes
    /\ rejectReasonLogMaxFiles \in host.maxFiles
    /\ proc \in [Procs -> host.procs]
    /\ lockFile \in host.lockFiles
    /\ cascadeFile \in host.cascadeFiles
    /\ sessionCache \in host.cacheFiles
    /\ logDir \in host.logDirs
    /\ logLockFile \in host.logLockFiles
    /\ logFile \in host.logs
    /\ logRotated = [g \in 1..host.generations |-> NoFile]
    /\ signals = [p \in Procs |-> <<>>]
    /\ reasonInput = [p \in Procs |-> NoInput]

\* A host without token and without session cache, on which no crashed
\* appender left the lock file of the rejection log.
Host ==
    [ providers |-> Providers,
      sessions |-> {SessionInput(<<"s", "1">>, <<>>, <<"/", "w">>)},
      chatIds |-> {[p \in Procs |-> <<"1">>]},
      tools |-> {"Bash", "AskUserQuestion"},
      procs |-> {InitProc},
      maxChars |-> {RejectReasonMaxChars},
      rotateBytes |-> {RotateBytes},
      maxFiles |-> {MaxFiles},
      lockFiles |-> {NoFile},
      cascadeFiles |-> {NoFile},
      cacheFiles |-> {NoFile},
      logDirs |-> {TRUE},
      logLockFiles |-> {FALSE},
      logs |-> {NoFile},
      generations |-> MaxFiles ]

\* A crashed appender may have left the lock file of the rejection log.
Init == InitWith([Host EXCEPT !.logLockFiles = BOOLEAN])

\* The environment (the operator, the messenger platform, whoever starts a hook
\* process) acts on a grid of EnvQuantum; a hook process is also started at the
\* first instant at which the cascade state on disk is older than the window.
OnGrid == now % EnvQuantum = 0
CascadeEnd ==
    IF cascadeFile.exists /\ cascadeFile.kind = "state"
    THEN cascadeFile.createdAt + REJECT_CASCADE_WINDOW_MS + 1 ELSE 0

DiagHookError == "Permission hook error (fail-open)"
DiagLogFailed == "[dmplz] Reject log append failed"

\* outputResult, and the end of main: the process has written its decision
\* object and exits; its locals are gone.
Done(r, output) ==
    [r EXCEPT !.pc = "done", !.output = output, !.outputs = @ + 1, !.reactions = <<>>,
              !.pastDeadline = now - r.lockStartTime > QuestionTimeoutMs,
              !.lockStartTime = 0, !.startTime = 0, !.timeoutMs = 0,
              !.waitTimeoutMs = 0, !.reasonStart = 0, !.logStartTime = 0, !.wake = 0]

\* main's catch without outputResult(true).
FailOpenSilent(r, ns) ==
    [r EXCEPT !.pc = "done", !.nstate = ns, !.stderr = @ \cup {DiagHookError}]

\* main's catch: the diagnostic line, outputResult(true) and process.exit(0).
FailOpen(r, ns) ==
    Done([r EXCEPT !.nstate = ns, !.stderr = @ \cup {DiagHookError}],
         OutputResult(TRUE, NoMessage, NoMessage))

\* The cascade-state file: what JSON.parse makes of its content.
\*   "state"    an object with a finite createdAt
\*   "no_time"  an object whose createdAt is not a finite number
\*   "garbage"  unreadable, or not JSON, or not an object
CascadeStateFile(kind, createdAt, reason, reasonSource, requestId, toolName) ==
    [exists |-> TRUE, kind |-> kind, createdAt |-> createdAt, reason |-> reason,
     reasonSource |-> reasonSource, requestId |-> requestId, toolName |-> toolName]

\* readCascadeState with the expiry test inverted.
ReadCascadeStateInverted(windowMs) ==
    IF /\ cascadeFile.exists
       /\ cascadeFile.kind = "state"
       /\ now - cascadeFile.createdAt > windowMs
    THEN cascadeFile ELSE NoFile

\* readCascadeState: the state, or NoFile (null) when the file is absent, when
\* reading or parsing it throws, when its createdAt is not finite, and when
\* it is older than the window.
ReadCascadeState(windowMs) ==
    IF /\ cascadeFile.exists
       /\ cascadeFile.kind = "state"
       /\ ~(now - cascadeFile.createdAt > windowMs)
    THEN cascadeFile ELSE NoFile

\* What a request that starts now starts within: the cascade state of the key
\* whose window has not ended (observed for the properties, not read by main).
CascadeInWindow ==
    IF /\ cascadeFile.exists
       /\ cascadeFile.kind = "state"
       /\ now - cascadeFile.createdAt <= REJECT_CASCADE_WINDOW_MS
    THEN cascadeFile ELSE NoFile

\* The session-cache file: what JSON.parse makes of its content.
\*   "cache"    an object with allowedTools and createdAt
\*   "no_tools" an object with createdAt and without allowedTools
\*   "garbage"  unreadable, or not JSON, or JSON without a createdAt number
SessionCacheFile(kind, allowedTools, createdAt) ==
    [exists |-> TRUE, kind |-> kind, allowedTools |-> allowedTools, createdAt |-> createdAt]

\* loadSessionCache: the parsed object if it is younger than 24 hours, else null;
\* every error is caught and gives null.
LoadSessionCache ==
    IF /\ sessionCache.exists
       /\ sessionCache.kind # "garbage"
       /\ now - sessionCache.createdAt < SessionCacheTtlMs
    THEN sessionCache ELSE NoFile

\* loadSessionCache that removes the record it finds expired.
SessionCacheAfterLoadUnlinksExpired ==
    IF sessionCache.exists /\ ~LoadSessionCache.exists THEN NoFile ELSE sessionCache

\* loadSessionCache: the file after the read.  There is no unlinkSync: a record
\* that is expired, or cannot be parsed, stays where it is.
SessionCacheAfterLoad == sessionCache

\* isToolAllowedInSession: cache?.allowedTools.includes(toolName) ?? false.  The
\* optional chain guards a null cache only: without allowedTools, includes is
\* called on undefined and the TypeError leaves the function.
IsToolAllowedInSessionThrows == LoadSessionCache.exists /\ LoadSessionCache.kind = "no_tools"

\* isToolAllowedInSession that never finds the tool.
IsToolAllowedInSessionNever(toolName) == FALSE

IsToolAllowedInSession(toolName) ==
    /\ LoadSessionCache.exists
    /\ LoadSessionCache.kind = "cache"
    /\ toolName \in LoadSessionCache.allowedTools

\* The tool was approved for the session by a request that has ended.
SessionApproved(toolName) ==
    \E q \in Procs : /\ proc[q].pc = "done"
                     /\ proc[q].nstate = "ApprovedSession"
                     /\ proc[q].tool = toolName

(***************************************************************************)
(* main(), up to the acquisition of the user lock.                         *)
(***************************************************************************)
Start(p) ==
    /\ proc[p].pc = "init"
    /\ now <= MaxStart
    /\ OnGrid \/ now = CascadeEnd
    /\ \A q \in Procs : q < p => proc[q].pc # "init"   \* requests are numbered as started
    /\ \E t \in toolNames, getInfoOk \in BOOLEAN :
         LET r == [proc[p] EXCEPT !.tool = t, !.approvedAtStart = SessionApproved(t)] IN
         proc' = [proc EXCEPT ![p] =
            IF t = "AskUserQuestion"
            THEN Done([r EXCEPT !.lockStartTime = now],
                      OutputResult(TRUE, NoMessage, NoMessage))
            ELSE IF IsToolAllowedInSessionThrows
            THEN FailOpen([r EXCEPT !.lockStartTime = now], "CacheError")
            ELSE IF IsToolAllowedInSession(t)
            THEN Done([r EXCEPT !.lockStartTime = now, !.nstate = "CacheHit",
                                !.lockedAtStart = lockFile.exists],
                      OutputResult(TRUE, NoMessage, NoMessage))
            ELSE IF ~getInfoOk
            THEN FailOpen([r EXCEPT !.lockStartTime = now], "Error")
            ELSE [r EXCEPT !.pc = "acquire", !.lockStartTime = now, !.wake = now,
                           !.keyed = TRUE,
                           !.cascadeAtStart = CascadeInWindow]]
    /\ sessionCache' = IF proc'[p].tool = "AskUserQuestion" THEN sessionCache
                       ELSE SessionCacheAfterLoad
    /\ UNCHANGED << now, config, lockFile, cascadeFile, logFiles, operator >>

\* acquireUserLock: the loop condition and the exclusive create (flag 'wx').
AcquireUserLock(p) ==
    /\ proc[p].pc = "acquire"
    /\ now >= proc[p].wake
    /\ IF now - proc[p].lockStartTime >= QuestionTimeoutMs
       THEN /\ proc' = [proc EXCEPT ![p] = FailOpen(@, "LockTimeout")]
            /\ UNCHANGED lockFile
       ELSE IF ~lockFile.exists
       THEN /\ lockFile' = [exists |-> TRUE, createdAt |-> now, owner |-> p]
            /\ proc' = [proc EXCEPT ![p].pc = "locked", ![p].holdsLock = TRUE]
       ELSE /\ proc' = [proc EXCEPT ![p].pc = "lock_stat"]
            /\ UNCHANGED lockFile
    /\ UNCHANGED << now, config, cascadeFile, sessionCache, logFiles, operator >>

\* acquireUserLock without the staleness test.
StaleTokenNever(file, timeoutMs) == FALSE

\* acquireUserLock, after EEXIST: statSync and the staleness test.
StaleToken(file, timeoutMs) == file.exists /\ now - file.createdAt > timeoutMs

LockStat(p) ==
    /\ proc[p].pc = "lock_stat"
    /\ proc' = [proc EXCEPT ![p] =
          IF StaleToken(lockFile, QuestionTimeoutMs)
          THEN [@ EXCEPT !.pc = "lock_unlink"]
          ELSE [@ EXCEPT !.pc = "acquire", !.wake = now + LockPollMs]]
    /\ UNCHANGED << now, config, files, operator >>

\* acquireUserLock: unlinkSync of the token found stale, then the 200 ms sleep.
LockUnlink(p) ==
    /\ proc[p].pc = "lock_unlink"
    /\ lockFile' = NoFile
    /\ proc' = [proc EXCEPT ![p].pc = "acquire", ![p].wake = now + LockPollMs]
    /\ UNCHANGED << now, config, cascadeFile, sessionCache, logFiles, operator >>


(***************************************************************************)
(* main(), inside the user lock: the cascade check and the decision prompt.*)
(***************************************************************************)
\* readCascadeState that leaves the file it finds expired.
CascadeFileAfterReadKeeps(windowMs) == cascadeFile

\* readCascadeState unlinks a state file that has no finite createdAt or is
\* older than the window; a file that cannot be read or parsed stays.
CascadeFileAfterRead(windowMs) ==
    IF /\ cascadeFile.exists
       /\ \/ cascadeFile.kind = "no_time"
          \/ cascadeFile.kind = "state" /\ now - cascadeFile.createdAt > windowMs
    THEN NoFile ELSE cascadeFile

\* main: effectiveTimeoutMs, from lockStartTime (the lower limit of 1 is 1 ms).
EffectiveTimeoutMs(lockStartTime) ==
    LET elapsedMs == now - lockStartTime
        remainingMs == Max2(QuestionTimeoutMs - elapsedMs, 0)
    IN  Max2(remainingMs, 1)

\* The release closure returned by acquireUserLock: unlinkSync(lockPath), with
\* every error swallowed.  It removes whatever file is at lockPath.
ReleaseLock(file) == NoFile

\* main without the call of releaseLock().
ReleasedNever(r) == r

\* releaseLock(): unlinkSync(lockPath), whoever created the token.
Released(r) == [r EXCEPT !.holdsLock = FALSE]

\* requestPermission threw: main's finally releases the lock, its catch fails open.
Thrown(r, ns) == FailOpen(Released(r), ns)

\* requestPermission returned: main's finally releases the lock.
Returned(r, type, reason, reasonSource, ns) ==
    [Released(r) EXCEPT !.pc = "respond", !.nstate = ns,
        !.response = [type |-> type, reason |-> reason, reasonSource |-> reasonSource]]

\* A cascade auto-reject that restarts the window.
CascadeFileAfterAutoRejectRenews(cascadeState) == [cascadeState EXCEPT !.createdAt = now]

\* main, cascade branch: outputResult and return; neither writeCascadeState
\* nor appendRejectLog is called, the state file stays as it was read.
CascadeFileAfterAutoReject(cascadeState) == cascadeState

Locked(p) ==
    /\ proc[p].pc = "locked"
    /\ LET cascadeState == ReadCascadeState(REJECT_CASCADE_WINDOW_MS) IN
       IF cascadeState.exists
       THEN \* cascade auto-reject: outputResult(false, denyMessage); return; finally
            /\ proc' = [proc EXCEPT ![p] =
                 Done([Released(@) EXCEPT !.nstate = "CascadeRejected"],
                      OutputResult(FALSE,
                        BuildDenyMessage(cascadeState.reason, cascadeState.reasonSource),
                        NoMessage))]
            /\ lockFile' = ReleaseLock(lockFile)
            /\ cascadeFile' = CascadeFileAfterAutoReject(cascadeState)
       ELSE /\ cascadeFile' = CascadeFileAfterRead(REJECT_CASCADE_WINDOW_MS)
            /\ \E sendOk \in BOOLEAN :
                 IF ~sendOk
                 THEN \* the prompt could not be sent: requestPermission throws
                      /\ proc' = [proc EXCEPT ![p] = Thrown(@, "Error")]
                      /\ lockFile' = ReleaseLock(lockFile)
                 ELSE /\ proc' = [proc EXCEPT ![p] =
                           [@ EXCEPT !.startTime = now,
                              !.timeoutMs = EffectiveTimeoutMs(proc[p].lockStartTime),
                              !.prompts = @ + 1,
                              !.nstate = "WaitingDecision",
                              !.pc = IF provider = "telegram" THEN "t_wait" ELSE "d_loop",
                              !.wake = IF provider = "telegram" THEN now
                                       ELSE now + 2 * DiscordReactionDelay]]
                      /\ UNCHANGED lockFile
    /\ UNCHANGED << now, config, sessionCache, logFiles, operator >>


\* The prompts after a step of p.  When requestPermission ends, the buttons or
\* reactions of its prompt are gone; a reason prompt is answered by messages that
\* follow it, so an answer is seen through one reason prompt only.
PromptEffect(p) ==
    /\ signals' = IF proc'[p].pc \in {"respond", "done"}
                  THEN [signals EXCEPT ![p] = <<>>] ELSE signals
    /\ reasonInput' = IF proc'[p].pc \in {"t_rwait", "d_rpoll"}
                      THEN reasonInput ELSE [reasonInput EXCEPT ![p] = NoInput]

\* The lock file after a step of p: unlinked if the step released p's lock.
ReleaseEffect(p) ==
    lockFile' = IF proc[p].holdsLock /\ ~proc'[p].holdsLock
                THEN ReleaseLock(lockFile) ELSE lockFile

\* requestPermission: remainingMs and waitTimeoutMs, computed when the reject is seen.
WaitTimeoutMs(r) ==
    LET remainingMs == Max2(r.timeoutMs - (now - r.startTime), 0)
    IN  Min2(RejectReasonTimeoutMs, remainingMs)

\* The terminal state of a rejection, after main's normalisation.
RejectedStateUnder(reason, reasonSource, maxChars) ==
    IF ResolveReasonSource(NormalizeRejectReason(reason, maxChars),
                           reasonSource) = "user_input"
    THEN "RejectedWithReason" ELSE "RejectedNoReason"

RejectedState(reason, reasonSource) ==
    RejectedStateUnder(reason, reasonSource, rejectReasonMaxChars)

\* waitForRejectReason returned (if it was called) and requestPermission returns.
ReasonWaitOver(r) ==
    [r EXCEPT !.reasonWaitOverran =
        r.pc \in {"t_rwait", "d_rpoll"} /\ now - r.reasonStart > r.waitTimeoutMs]

ReturnedReject(r, reason, reasonSource) ==
    Returned(ReasonWaitOver(r), "reject", reason, reasonSource,
             RejectedState(reason, reasonSource))

(***************************************************************************)
(* TelegramProvider.requestPermission                                      *)
(***************************************************************************)
PermissionChatId == "permission chat"   \* config.permissionChatId || config.chatId
OtherChatId == "another chat"           \* a chat the bot is in as well
OlderMessageId == 0                     \* the prompt message of an earlier run

\* The prompt message of request p: message ids grow as messages are sent.
SentMessageId(p) == p

\* update.callback_query, as far as requestPermission reads it.
CallbackQuery(chat, message, data) == [chat |-> chat, message |-> message, data |-> data]

\* The clicks of the operator on the prompts of the requests 1..n, as callback queries.
RECURSIVE ClicksOnPrompts(_)
ClicksOnPrompts(n) ==
    IF n = 0 THEN <<>>
    ELSE ClicksOnPrompts(n - 1)
         \o [i \in 1..Len(signals[n]) |->
                CallbackQuery(PermissionChatId, SentMessageId(n), signals[n][i])]

\* What getUpdates returns to request p (one bot, one update queue for all the
\* processes): a click on the prompt of an earlier run, a click in another chat
\* on the message that has the id of p's prompt there, and the clicks on the
\* prompts of this run.
PendingCallbackQueries(p) ==
    << CallbackQuery(PermissionChatId, OlderMessageId, "approve"),
       CallbackQuery(OtherChatId, SentMessageId(p), "approve_session") >>
    \o ClicksOnPrompts(Cardinality(Procs))

\* requestPermission without the test of the message id.
TelegramAcceptsAnyMessage(query, permissionChatId, sentMessageId) ==
    query.chat = permissionChatId

\* requestPermission: the two tests a callback query has to pass.
TelegramAccepts(query, permissionChatId, sentMessageId) ==
    /\ ~(query.chat # permissionChatId)
    /\ ~(query.message # sentMessageId)

\* The callback queries that request p takes as answers to its prompt, in order.
RECURSIVE AcceptedOf(_, _)
AcceptedOf(queries, p) ==
    IF queries = <<>> THEN <<>>
    ELSE IF TelegramAccepts(Head(queries), PermissionChatId, SentMessageId(p))
    THEN <<Head(queries)>> \o AcceptedOf(Tail(queries), p)
    ELSE AcceptedOf(Tail(queries), p)

AcceptedQueries(p) == AcceptedOf(PendingCallbackQueries(p), p)

\* getUpdates returned a callback query for the prompt message.
TelegramDecision(p) ==
    /\ proc[p].pc = "t_wait"
    /\ AcceptedQueries(p) # <<>>
    /\ LET data == Head(AcceptedQueries(p)).data IN
       proc' = [proc EXCEPT ![p] =
          IF data = "approve" THEN Returned(@, "approve", <<>>, None, "Approved")
          ELSE IF data = "approve_session"
          THEN Returned(@, "approve_session", <<>>, None, "ApprovedSession")
          ELSE [@ EXCEPT !.pc = "t_reason", !.nstate = "WaitingReason",
                         !.waitTimeoutMs = WaitTimeoutMs(proc[p])]]
    /\ ReleaseEffect(p)
    /\ PromptEffect(p)
    /\ UNCHANGED << now, config, cascadeFile, sessionCache, logFiles >>

\* The long poll returned without a decision at or after the timeout.
TelegramDecisionTimeout(p) ==
    /\ proc[p].pc = "t_wait"
    /\ AcceptedQueries(p) = <<>>
    /\ now - proc[p].startTime >= proc[p].timeoutMs
    /\ proc' = [proc EXCEPT ![p] = Thrown(@, "Expired")]
    /\ ReleaseEffect(p)
    /\ PromptEffect(p)
    /\ UNCHANGED << now, config, cascadeFile, sessionCache, logFiles >>

\* A Telegram API call throws (getUpdates not ok, or a failed fetch): the error
\* leaves requestPermission.
TelegramThrows(p) ==
    /\ OnGrid
    /\ proc[p].pc \in {"t_wait", "t_rwait"}
    /\ proc' = [proc EXCEPT ![p] = Thrown(@, "Error")]
    /\ ReleaseEffect(p)
    /\ PromptEffect(p)
    /\ UNCHANGED << now, config, cascadeFile, sessionCache, logFiles >>

\* sendRejectReasonPrompt, and the start of waitForRejectReason.
TelegramReasonPrompt(p) ==
    /\ proc[p].pc = "t_reason"
    /\ \E outcome \in {"ok", "error", "throws"} :
         proc' = [proc EXCEPT ![p] =
            IF outcome = "throws" THEN Thrown(@, "Error")
            ELSE IF outcome = "error" THEN ReturnedReject(@, <<>>, "explicit_skip")
            ELSE IF @.waitTimeoutMs > 0
            THEN [@ EXCEPT !.pc = "t_rwait", !.reasonStart = now,
                           !.reasonPrompts = @ + 1]
            ELSE ReturnedReject([@ EXCEPT !.reasonPrompts = @ + 1], <<>>, "timeout")]
    /\ ReleaseEffect(p)
    /\ PromptEffect(p)
    /\ UNCHANGED << now, config, cascadeFile, sessionCache, logFiles >>

\* waitForRejectReason: the button 'reject_no_reason' or a text message arrived.
TelegramReason(p) ==
    /\ proc[p].pc = "t_rwait"
    /\ reasonInput[p].kind # None
    /\ proc' = [proc EXCEPT ![p] =
          IF reasonInput[p].kind = "skip"
          THEN ReturnedReject(@, <<>>, "explicit_skip")
          ELSE ReturnedReject([@ EXCEPT !.reasonSeen = reasonInput[p].text],
                              reasonInput[p].text, "user_input")]
    /\ ReleaseEffect(p)
    /\ PromptEffect(p)
    /\ UNCHANGED << now, config, cascadeFile, sessionCache, logFiles >>

\* waitForRejectReason: the long poll returned without input at or after the timeout.
TelegramReasonTimeout(p) ==
    /\ proc[p].pc = "t_rwait"
    /\ reasonInput[p].kind = None
    /\ now - proc[p].reasonStart >= proc[p].waitTimeoutMs
    /\ proc' = [proc EXCEPT ![p] = ReturnedReject(@, <<>>, "timeout")]
    /\ ReleaseEffect(p)
    /\ PromptEffect(p)
    /\ UNCHANGED << now, config, cascadeFile, sessionCache, logFiles >>

(***************************************************************************)
(* DiscordProvider.requestPermission                                       *)
(***************************************************************************)
\* The timeout check at the end of a polling iteration, also reached from the
\* catch block of the iteration.
DiscordTimeoutCheck(r) ==
    IF now - r.startTime >= r.timeoutMs
    THEN Thrown(r, "Expired")
    ELSE [r EXCEPT !.pc = "d_poll", !.wake = now + DiscordPollInterval,
                   !.nstate = "WaitingDecision"]

\* The first test of the loop condition, after the three reactions were added.
DiscordLoop(p) ==
    /\ proc[p].pc = "d_loop"
    /\ now >= proc[p].wake
    /\ proc' = [proc EXCEPT ![p] = DiscordTimeoutCheck(@)]
    /\ ReleaseEffect(p)
    /\ PromptEffect(p)
    /\ UNCHANGED << now, config, cascadeFile, sessionCache, logFiles >>

BotId == "bot"                 \* getBotUserId()
DiscordUser(id, bot) == [id |-> id, bot |-> bot]

\* getReactionUsers(messageId, emoji) for the prompt of request p: the bot, which
\* added the three reactions itself; another bot of the channel on the approve
\* reaction; the operator, if the operator added the reaction.
GetReactionUsers(p, emoji) ==
    {DiscordUser(BotId, TRUE)}
    \cup (IF emoji = "approve" THEN {DiscordUser("another bot", TRUE)} ELSE {})
    \cup (IF emoji \in Range(signals[p]) THEN {DiscordUser("operator", FALSE)} ELSE {})

\* users.some that counts the other bots of the channel.
UserReactedCountsBots(users, botId) == \E user \in users : user.id # botId

\* users.some((user) => user.id !== botId && !user.bot)
UserReacted(users, botId) == \E user \in users : user.id # botId /\ ~user.bot

\* One polling iteration: the reactions of non-bot users, in the order tested.
DiscordPoll(p) ==
    /\ proc[p].pc = "d_poll"
    /\ now >= proc[p].wake
    /\ \E callOk \in BOOLEAN :
         proc' = [proc EXCEPT ![p] =
            IF ~callOk THEN DiscordTimeoutCheck(@)
            ELSE IF UserReacted(GetReactionUsers(p, "approve"), BotId)
            THEN Returned([@ EXCEPT !.reactions = signals[p]],
                          "approve", <<>>, None, "Approved")
            ELSE IF UserReacted(GetReactionUsers(p, "approve_session"), BotId)
            THEN Returned([@ EXCEPT !.reactions = signals[p]],
                          "approve_session", <<>>, None, "ApprovedSession")
            ELSE IF UserReacted(GetReactionUsers(p, "reject"), BotId)
            THEN [@ EXCEPT !.pc = "d_reason", !.nstate = "WaitingReason",
                           !.reactions = signals[p],
                           !.waitTimeoutMs = WaitTimeoutMs(proc[p])]
            ELSE DiscordTimeoutCheck(@)]
    /\ ReleaseEffect(p)
    /\ PromptEffect(p)
    /\ UNCHANGED << now, config, cascadeFile, sessionCache, logFiles >>

\* The reason prompt is sent; waitForRejectReason starts with its first sleep.
DiscordReasonPrompt(p) ==
    /\ proc[p].pc = "d_reason"
    /\ \E outcome \in {"ok", "error", "throws"} :
         proc' = [proc EXCEPT ![p] =
            IF outcome = "throws" THEN DiscordTimeoutCheck(@)
            ELSE IF outcome = "error" THEN ReturnedReject(@, <<>>, "explicit_skip")
            ELSE IF @.waitTimeoutMs > 0
            THEN [@ EXCEPT !.pc = "d_rpoll", !.reasonStart = now,
                           !.wake = now + DiscordPollInterval,
                           !.reasonPrompts = @ + 1]
            ELSE ReturnedReject([@ EXCEPT !.reasonPrompts = @ + 1], <<>>, "timeout")]
    /\ ReleaseEffect(p)
    /\ PromptEffect(p)
    /\ UNCHANGED << now, config, cascadeFile, sessionCache, logFiles >>

\* waitForRejectReason: one iteration; then the two edits of requestPermission.
DiscordReasonPoll(p) ==
    /\ proc[p].pc = "d_rpoll"
    /\ now >= proc[p].wake
    /\ \E outcome \in {"ok", "poll_error", "edit_error"} :
         LET content == Trim(reasonInput[p].text)
             found == outcome # "poll_error" /\ reasonInput[p].kind = "text"
             expired == now - proc[p].reasonStart >= proc[p].waitTimeoutMs
             done(r) ==
                IF ~found THEN ReturnedReject(r, <<>>, "timeout")
                ELSE IF IsNoReasonKeyword(content, RejectReasonNoReasonKeywords)
                THEN ReturnedReject([r EXCEPT !.reasonSeen = reasonInput[p].text],
                                    <<>>, "explicit_skip")
                ELSE ReturnedReject([r EXCEPT !.reasonSeen = reasonInput[p].text],
                                    content, "user_input")
         IN
         proc' = [proc EXCEPT ![p] =
            IF ~found /\ ~expired
            THEN [@ EXCEPT !.wake = now + DiscordPollInterval]
            ELSE IF outcome = "edit_error"
            THEN DiscordTimeoutCheck(ReasonWaitOver(@))
            ELSE done(@)]
    /\ ReleaseEffect(p)
    /\ PromptEffect(p)
    /\ UNCHANGED << now, config, cascadeFile, sessionCache, logFiles >>


(***************************************************************************)
(* main(), after requestPermission returned and the lock was released.     *)
(***************************************************************************)
\* saveSessionCache that stamps the record with the time of the save.
SaveSessionCacheRenews(toolName) ==
    IF LoadSessionCache.exists /\ LoadSessionCache.kind = "no_tools" THEN sessionCache
    ELSE SessionCacheFile("cache",
                          (IF LoadSessionCache.exists THEN LoadSessionCache.allowedTools
                           ELSE {}) \cup {toolName},
                          now)

\* saveSessionCache: load (or create), add the tool, write; an error (includes
\* called on a missing allowedTools) is caught and nothing is written.  loaded
\* is what loadSessionCache returned.
SessionCacheWritten(loaded, toolName) ==
    LET cache == IF loaded.exists THEN loaded
                 ELSE SessionCacheFile("cache", {}, now)
    IN  IF cache.kind = "no_tools" THEN sessionCache
        ELSE IF ~DirectoryExists(GetSessionCachePath(GetSessionId(sessionInput)))
        THEN sessionCache        \* writeFileSync throws ENOENT, which is caught
        ELSE [cache EXCEPT !.allowedTools = @ \cup {toolName}]

\* saveSessionCache in one step, as nothing else touches the file meanwhile.
SaveSessionCache(toolName) == SessionCacheWritten(LoadSessionCache, toolName)

\* main, on reject: normalizedReason and finalReasonSource of the response.
NormalizedReason(response) == NormalizeRejectReason(response.reason, rejectReasonMaxChars)
FinalReasonSource(response) ==
    ResolveReasonSource(NormalizedReason(response), response.reasonSource)

Respond(p) ==
    /\ proc[p].pc = "respond"
    /\ LET response == proc[p].response IN
       IF response.type = "approve"
       THEN /\ cascadeFile' = NoFile                       \* clearCascadeState
            /\ proc' = [proc EXCEPT ![p] =
                           Done(@, OutputResult(TRUE, NoMessage, NoMessage))]
            /\ UNCHANGED sessionCache
       ELSE IF response.type = "approve_session"
       THEN /\ sessionCache' = SaveSessionCache(proc[p].tool)
            /\ cascadeFile' = NoFile                       \* clearCascadeState
            /\ proc' = [proc EXCEPT ![p] =
                           Done(@, OutputResult(TRUE, NoMessage, NoMessage))]
       ELSE \* reject: appendRejectLog comes next
            /\ proc' = [proc EXCEPT ![p].pc = "log_lock",
                           ![p].logStartTime = now, ![p].wake = now]
            /\ UNCHANGED << cascadeFile, sessionCache >>
    /\ UNCHANGED << now, config, lockFile, logFiles, operator >>

\* buildRejectLogLine that stores the reason as it is.
BuildRejectLogLineUnmasked(requestId, toolName, reason, reasonSource) ==
    [ decision |-> "deny", request_id |-> requestId, tool_name |-> toolName,
      reason |-> reason, reason_source |-> reasonSource ]

\* buildRejectLogLine: the fields of a line that the negotiation decides.
BuildRejectLogLine(requestId, toolName, reason, reasonSource) ==
    [ decision |-> "deny", request_id |-> requestId, tool_name |-> toolName,
      reason |-> MaskSensitiveText(reason), reason_source |-> reasonSource ]

\* rotateRejectLogIfNeeded that renames the active file only.
RotateRejectLogNoShift(active, rotated, rotateBytes, maxFiles) ==
    IF ~active.exists \/ Len(active.lines) <= rotateBytes
    THEN [active |-> active, rotated |-> rotated]
    ELSE [active |-> NoFile, rotated |-> [rotated EXCEPT ![1] = active]]

\* rotateRejectLogIfNeeded that truncates only below zero (maxFiles < 0): with
\* maxFiles = 0 the active file is renamed to generation 1.
RotateRejectLogNoTruncate(active, rotated, rotateBytes, maxFiles) ==
    IF ~active.exists \/ Len(active.lines) <= rotateBytes
    THEN [active |-> active, rotated |-> rotated]
    ELSE IF maxFiles < 0
    THEN [active |-> [exists |-> TRUE, lines |-> <<>>], rotated |-> rotated]
    ELSE [active |-> NoFile,
          rotated |-> [g \in DOMAIN rotated |->
                          IF g = 1 THEN active
                          ELSE IF g <= maxFiles THEN rotated[g - 1]
                          ELSE rotated[g]]]

\* rotateRejectLogIfNeeded whose loop starts at maxFiles instead of
\* maxFiles - 1: the oldest generation is renamed to the next number.
RotateRejectLogOffByOne(active, rotated, rotateBytes, maxFiles) ==
    IF ~active.exists \/ Len(active.lines) <= rotateBytes
    THEN [active |-> active, rotated |-> rotated]
    ELSE IF maxFiles <= 0
    THEN [active |-> [exists |-> TRUE, lines |-> <<>>], rotated |-> rotated]
    ELSE [active |-> NoFile,
          rotated |-> [g \in DOMAIN rotated |->
                          IF g = 1 THEN active
                          ELSE IF g <= maxFiles + 1 THEN rotated[g - 1]
                          ELSE rotated[g]]]

\* rotateRejectLogIfNeeded; the size of a file is its number of lines.  The
\* generations are `${logPath}.<g>` for g in the domain of rotated: generation
\* maxFiles is unlinked, maxFiles-1 .. 1 are renamed to the next number from
\* the highest down, the active file is renamed to generation 1.
RotateRejectLogIfNeeded(active, rotated, rotateBytes, maxFiles) ==
    IF ~active.exists THEN [active |-> active, rotated |-> rotated]
    ELSE IF Len(active.lines) <= rotateBytes THEN [active |-> active, rotated |-> rotated]
    ELSE IF maxFiles <= 0
    THEN [active |-> [exists |-> TRUE, lines |-> <<>>], rotated |-> rotated]
    ELSE [active |-> NoFile,
          rotated |-> [g \in DOMAIN rotated |->
                          IF g = 1 THEN active
                          ELSE IF g <= maxFiles THEN rotated[g - 1]
                          ELSE rotated[g]]]

\* appendRejectLog that writes its line twice.
AppendRejectLogTwice(active, rotated, line, rotateBytes, maxFiles) ==
    LET lines == IF active.exists THEN active.lines ELSE <<>>
    IN  [active |-> [exists |-> TRUE, lines |-> Append(Append(lines, line), line)],
         rotated |-> rotated]

\* appendRejectLog: the action run inside the log lock (rotate, then appendFileSync).
AppendRejectLog(active, rotated, line, rotateBytes, maxFiles) ==
    LET after == RotateRejectLogIfNeeded(active, rotated, rotateBytes, maxFiles)
        lines == IF after.active.exists THEN after.active.lines ELSE <<>>
    IN  [active |-> [exists |-> TRUE, lines |-> Append(lines, line)],
         rotated |-> after.rotated]

\* main without the try/catch around appendRejectLog: the error reaches main's catch.
LogAppendFailedUncaught(r) == FailOpen(r, "Error")

\* main's catch around appendRejectLog: a diagnostic line, then the cascade write.
LogAppendFailed(r) ==
    [r EXCEPT !.pc = "cascade_write", !.stderr = @ \cup {DiagLogFailed}]

\* withLogLock: one iteration of the retry loop, with the action when the
\* sibling lock file could be created; the catch of main swallows a failure.
WithLogLock(p) ==
    /\ proc[p].pc = "log_lock"
    /\ now >= proc[p].wake
    /\ IF ~(now - proc[p].logStartTime < LogLockTimeoutMs)
       THEN \* 'Reject log lock timeout'
            /\ proc' = [proc EXCEPT ![p] = LogAppendFailed(@)]
            /\ UNCHANGED logFiles
       ELSE IF ~logDir
       THEN \* writeFileSync(lockPath, .., 'wx') throws ENOENT, which is rethrown
            /\ proc' = [proc EXCEPT ![p] = LogAppendFailed(@)]
            /\ UNCHANGED logFiles
       ELSE IF logLockFile
       THEN \* EEXIST: sleep 100 ms and retry
            /\ proc' = [proc EXCEPT ![p].wake = now + LogLockPollMs]
            /\ UNCHANGED logFiles
       ELSE \E outcome \in {"ok", "fails"} :
            IF outcome = "ok"
            THEN LET line == BuildRejectLogLine(p, proc[p].tool,
                                                NormalizedReason(proc[p].response),
                                                FinalReasonSource(proc[p].response))
                     after == AppendRejectLog(logFile, logRotated, line,
                                              rejectReasonLogRotateBytes,
                                              rejectReasonLogMaxFiles)
                 IN  /\ logFile' = after.active
                     /\ logRotated' = after.rotated
                     /\ UNCHANGED << logDir, logLockFile >>
                     /\ proc' = [proc EXCEPT ![p].pc = "cascade_write",
                                    ![p].appended = @ + 1]
            ELSE \* mkdirSync, the rotation or appendFileSync throws
                 /\ proc' = [proc EXCEPT ![p] = LogAppendFailed(@)]
                 /\ UNCHANGED logFiles
    /\ UNCHANGED << now, config, lockFile, cascadeFile, sessionCache, operator >>

(***************************************************************************)
(* withLogLock and the action of appendRejectLog, one file operation at a  *)
(* time: what concurrent appenders of several processes can interleave.    *)
(***************************************************************************)
\* writeFileSync(lockPath, .., {flag: 'w'}): a create that is not exclusive.
LogLockEexistNever(lockExists) == FALSE

\* writeFileSync(lockPath, .., {flag: 'wx'}) fails with EEXIST.
LogLockEexist(lockExists) == lockExists

\* The processes between the creation of the lock file and its unlink.
InLogAction(r) ==
    r.pc \in {"log_stat", "log_rotate", "log_append", "log_unlock", "log_unlock_thrown"}

\* withLogLock: one iteration of the retry loop, up to the creation of the
\* sibling lock file.
LogLockTry(p) ==
    /\ proc[p].pc = "log_lock"
    /\ now >= proc[p].wake
    /\ IF ~(now - proc[p].logStartTime < LogLockTimeoutMs)
       THEN \* 'Reject log lock timeout'
            /\ proc' = [proc EXCEPT ![p] = LogAppendFailed(@)]
            /\ UNCHANGED logFiles
       ELSE IF ~logDir
       THEN /\ proc' = [proc EXCEPT ![p] = LogAppendFailed(@)]
            /\ UNCHANGED logFiles
       ELSE IF LogLockEexist(logLockFile)
       THEN /\ proc' = [proc EXCEPT ![p].wake = now + LogLockPollMs]
            /\ UNCHANGED logFiles
       ELSE /\ logLockFile' = TRUE
            /\ proc' = [proc EXCEPT ![p].pc = "log_stat",
                           ![p].logSeen = [active |-> logFile, rotated |-> logRotated]]
            /\ UNCHANGED << logDir, logFile, logRotated >>
    /\ UNCHANGED << now, config, lockFile, cascadeFile, sessionCache, operator >>

\* ensureRejectLogDirectory, then the tests of rotateRejectLogIfNeeded:
\* existsSync(logPath) and statSync(logPath).size <= rotateBytes.
LogStat(p) ==
    /\ proc[p].pc = "log_stat"
    /\ proc' = [proc EXCEPT ![p].pc =
                   IF logFile.exists /\ Len(logFile.lines) > rejectReasonLogRotateBytes
                   THEN "log_rotate" ELSE "log_append"]
    /\ UNCHANGED << now, config, files, operator >>

\* The rest of rotateRejectLogIfNeeded: truncateSync, or the unlink and the
\* renames; renameSync(logPath, ..) throws when the file is no longer there,
\* and any of the calls may fail.
LogRotate(p) ==
    /\ proc[p].pc = "log_rotate"
    /\ \E outcome \in {"ok", "fails"} :
          IF outcome = "ok" /\ logFile.exists
          THEN LET after == RotateRejectLogIfNeeded(logFile, logRotated, 0 - 1,
                                                    rejectReasonLogMaxFiles)
               IN  /\ logFile' = after.active
                   /\ logRotated' = after.rotated
                   /\ proc' = [proc EXCEPT ![p].pc = "log_append"]
          ELSE /\ proc' = [proc EXCEPT ![p].pc = "log_unlock_thrown"]
               /\ UNCHANGED << logFile, logRotated >>
    /\ UNCHANGED << now, config, lockFile, cascadeFile, sessionCache, logDir,
                    logLockFile, operator >>

\* buildRejectLogLine and appendFileSync, which may fail.
LogAppendLine(p) ==
    /\ proc[p].pc = "log_append"
    /\ \E outcome \in {"ok", "fails"} :
          IF outcome = "ok"
          THEN LET line == BuildRejectLogLine(p, proc[p].tool,
                                              NormalizedReason(proc[p].response),
                                              FinalReasonSource(proc[p].response))
               IN  /\ logFile' = [exists |-> TRUE,
                                  lines |-> Append(IF logFile.exists THEN logFile.lines
                                                   ELSE <<>>, line)]
                   /\ proc' = [proc EXCEPT ![p].pc = "log_unlock",
                                  ![p].appended = @ + 1]
          ELSE /\ proc' = [proc EXCEPT ![p].pc = "log_unlock_thrown"]
               /\ UNCHANGED logFile
    /\ UNCHANGED << now, config, lockFile, cascadeFile, sessionCache, logDir,
                    logLockFile, logRotated, operator >>

\* withLogLock's finally: unlinkSync(lockPath); then it returns, or the error
\* of the action reaches the catch of main.
LogUnlock(p) ==
    /\ proc[p].pc \in {"log_unlock", "log_unlock_thrown"}
    /\ logLockFile' = FALSE
    /\ proc' = [proc EXCEPT ![p] =
                   IF @.pc = "log_unlock" THEN [@ EXCEPT !.pc = "cascade_write"]
                   ELSE LogAppendFailed(@)]
    /\ UNCHANGED << now, config, lockFile, cascadeFile, sessionCache, logDir,
                    logFile, logRotated, operator >>

\* writeCascadeState, then outputResult(false, denyMessage, undefined, systemMessage).
WriteCascadeState(p) ==
    /\ proc[p].pc = "cascade_write"
    /\ LET reason == NormalizedReason(proc[p].response)
           reasonSource == FinalReasonSource(proc[p].response)
       IN  /\ cascadeFile' = CascadeStateFile("state", now, reason, reasonSource, p,
                                               proc[p].tool)
           /\ proc' = [proc EXCEPT ![p] =
                          Done(@, OutputResult(FALSE,
                              BuildDenyMessage(reason, reasonSource),
                              BuildRejectionSystemMessage(reason, reasonSource)))]
    /\ UNCHANGED << now, config, lockFile, sessionCache, logFiles, operator >>

(***************************************************************************)
(* The operator and the clock.                                             *)
(***************************************************************************)
\* The operator presses a button of the prompt (Telegram) or adds a reaction (Discord).
OperatorDecides(p) ==
    /\ OnGrid
    /\ proc[p].pc \in {"t_wait", "d_loop", "d_poll", "d_rpoll"}
    /\ Len(signals[p]) < MaxSignals
    /\ \E d \in Decisions \ Range(signals[p]) :
         signals' = [signals EXCEPT ![p] = Append(@, d)]
    /\ UNCHANGED << now, config, proc, files, reasonInput >>

\* The operator answers the reason prompt: a text, or the Telegram button.
OperatorGivesReason(p) ==
    /\ OnGrid
    /\ proc[p].pc \in {"t_rwait", "d_rpoll"}
    /\ reasonInput[p].kind = None
    /\ \/ \E text \in ReasonTexts :
            reasonInput' = [reasonInput EXCEPT ![p] = [kind |-> "text", text |-> text]]
       \/ /\ provider = "telegram"
          /\ reasonInput' = [reasonInput EXCEPT ![p] = [kind |-> "skip", text |-> <<>>]]
    /\ UNCHANGED << now, config, proc, files, signals >>

\* A process has a step to take without waiting.
Urgent(p) ==
    LET r == proc[p] IN
    \/ r.pc \in {"lock_stat", "lock_unlink", "locked", "t_reason", "d_reason",
                 "respond", "cascade_write", "log_stat", "log_rotate", "log_append",
                 "log_unlock", "log_unlock_thrown"}
    \/ r.pc \in {"acquire", "d_loop", "d_poll", "d_rpoll", "log_lock"} /\ now >= r.wake
    \/ r.pc = "t_wait" /\ ( \/ AcceptedQueries(p) # <<>>
                            \/ now >= r.startTime + r.timeoutMs + TelegramPollTimeout - 1 )
    \/ r.pc = "t_rwait" /\ ( \/ reasonInput[p].kind # None
                             \/ now >= r.reasonStart + r.waitTimeoutMs
                                          + TelegramPollTimeout - 1 )

\* The instants at which a process comes out of a sleep or of a long poll: the
\* end of a setTimeout sleep; for a Telegram long poll, the first instant at which
\* it can return past the timeout, and the last instant at which it returns.
Timers(p) ==
    LET r == proc[p] IN
    IF r.pc \in {"acquire", "d_loop", "d_poll", "d_rpoll", "log_lock"} THEN {r.wake}
    ELSE IF r.pc = "t_wait"
    THEN {r.startTime + r.timeoutMs, r.startTime + r.timeoutMs + TelegramPollTimeout - 1}
    ELSE IF r.pc = "t_rwait"
    THEN {r.reasonStart + r.waitTimeoutMs,
          r.reasonStart + r.waitTimeoutMs + TelegramPollTimeout - 1}
    ELSE {}

\* The instants at which the environment acts, while a process waits for it.
EnvInstants ==
    IF \E p \in Procs : proc[p].pc \in {"init", "t_wait", "t_rwait", "d_loop", "d_poll", "d_rpoll"}
    THEN {k * EnvQuantum : k \in 1..(MaxTime \div EnvQuantum)}
         \cup (IF \E p \in Procs : proc[p].pc = "init" THEN {CascadeEnd} ELSE {})
    ELSE {}

Instants ==
    {t \in (UNION {Timers(p) : p \in Procs}) \cup EnvInstants : t > now /\ t <= MaxTime}

\* Time passes, up to the next instant at which something can happen.
Tick ==
    /\ proc[1].pc # "init"                 \* time is counted from the first start
    /\ \A p \in Procs : ~Urgent(p)
    /\ Instants # {}
    /\ now' = CHOOSE t \in Instants : \A u \in Instants : t <= u
    /\ UNCHANGED << config, proc, files, operator >>

Next ==
    \/ \E p \in Procs :
         \/ Start(p)
         \/ AcquireUserLock(p)
         \/ LockStat(p)
         \/ LockUnlink(p)
         \/ Locked(p)
         \/ TelegramDecision(p)
         \/ TelegramDecisionTimeout(p)
         \/ TelegramThrows(p)
         \/ TelegramReasonPrompt(p)
         \/ TelegramReason(p)
         \/ TelegramReasonTimeout(p)
         \/ DiscordLoop(p)
         \/ DiscordPoll(p)
         \/ DiscordReasonPrompt(p)
         \/ DiscordReasonPoll(p)
         \/ Respond(p)
         \/ WithLogLock(p)
         \/ WriteCascadeState(p)
         \/ OperatorDecides(p)
         \/ OperatorGivesReason(p)
    \/ Tick

Spec == Init /\ [][Next]_vars

(***************************************************************************)
(* The same program on other hosts.                                        *)
(***************************************************************************)
\* The agent asks for two tools that need permission.
InitTools == InitWith([Host EXCEPT !.tools = Tools])
SpecTools == InitTools /\ [][Next]_vars

\* The session-cache files an earlier run, or anything else, may have left: no
\* file, a file that cannot be parsed, an object without allowedTools, and a
\* cache approving Bash that is EnvQuantum short of its 24 hours.
SessionCacheFiles ==
    { NoFile,
      SessionCacheFile("garbage", {}, 0),
      SessionCacheFile("no_tools", {}, 0),
      SessionCacheFile("cache", {"Bash"}, EnvQuantum - SessionCacheTtlMs) }

\* Session caches of an earlier run of the session that are EnvQuantum short
\* of their 24 hours when the clock starts: one approves Bash, the other one
\* another tool.
AgedSessionCaches ==
    { SessionCacheFile("cache", {"Bash"}, EnvQuantum - SessionCacheTtlMs),
      SessionCacheFile("cache", {"Write"}, EnvQuantum - SessionCacheTtlMs) }
InitSession == InitWith([Host EXCEPT !.cacheFiles = AgedSessionCaches])
SpecSession == InitSession /\ [][Next]_vars

\* The cascade-state files an earlier request of the key, or anything else,
\* may have left: no file, a file that cannot be parsed, a state without
\* createdAt, and the state of a rejection that is as old as the window when
\* the clock starts.
CascadeStateFiles ==
    { NoFile,
      CascadeStateFile("garbage", 0, <<>>, "timeout", 0, "Bash"),
      CascadeStateFile("no_time", 0, <<>>, "timeout", 0, "Bash"),
      CascadeStateFile("state", 0 - REJECT_CASCADE_WINDOW_MS, <<"a">>, "user_input", 0, "Bash") }
InitCascade == InitWith([Host EXCEPT !.cascadeFiles = CascadeStateFiles])
SpecCascade == InitCascade /\ [][Next]_vars

\* main: lockKey of a process (DMPLZ_DISCORD_DM_USER_ID is not set).
LockKey(p) == CreateUserLockKey(provider, chatId[p], <<>>)

\* Two hook processes of one host that are configured for different chats.
\* lockFile and cascadeFile are the files at one path: these are the
\* configurations under which the paths of the two keys are that path.
ChatIds == { <<"@", "o", "p", "s">>, <<"#", "o", "p", "s">>, <<"o", "p", "s">> }
SharedPathChatIds ==
    { c \in [Procs -> ChatIds] :
        \A p, q \in Procs :
           /\ p # q => c[p] # c[q]
           /\ GetUserLockPath(CreateUserLockKey("telegram", c[p], <<>>))
                 = GetUserLockPath(CreateUserLockKey("telegram", c[q], <<>>))
           /\ GetCascadeStatePath(CreateUserLockKey("telegram", c[p], <<>>))
                 = GetCascadeStatePath(CreateUserLockKey("telegram", c[q], <<>>)) }
InitKeys == InitWith([Host EXCEPT !.chatIds = SharedPathChatIds])
SpecKeys == InitKeys /\ [][Next]_vars

\* Runs whose input has no session_id: with and without CLAUDE_SESSION_ID in
\* the environment, from an absolute working directory.
SessionInputs ==
    { SessionInput(<<>>, <<"e", "1">>, <<"/", "w">>),
      SessionInput(<<>>, <<>>, <<"/", "w">>) }
InitSessionId == InitWith([Host EXCEPT !.sessions = SessionInputs])
SpecSessionId == InitSessionId /\ [][Next]_vars

\* A session in which Bash was approved a moment ago, on a host where the
\* operator has or has not just rejected a request; the agent asks for Bash
\* and for Write.
InitApproved ==
    InitWith([Host EXCEPT !.tools = {"Bash", "Write"},
                          !.cacheFiles = {SessionCacheFile("cache", {"Bash"}, 0)},
                          !.cascadeFiles = {NoFile,
                                            CascadeStateFile("state", 0, <<"a">>, "user_input",
                                                             0, "Bash")}])
SpecApproved == InitApproved /\ [][Next]_vars

\* Two requests that the agent makes at the same time, with the scheduling of
\* the host: a process that can take a step takes it, and time passes.  The
\* steps of the operator and the failure of a getUpdates call are not forced;
\* the operator gives a prompt one decision, and types one of two reasons.  A
\* process that died may have left its lock token.
StartAtOnce(p) == now = 0 /\ Start(p)
ProgramStep(p) ==
    \/ AcquireUserLock(p)
    \/ LockStat(p)
    \/ LockUnlink(p)
    \/ Locked(p)
    \/ TelegramDecision(p)
    \/ TelegramDecisionTimeout(p)
    \/ TelegramReasonPrompt(p)
    \/ TelegramReason(p)
    \/ TelegramReasonTimeout(p)
    \/ DiscordLoop(p)
    \/ DiscordPoll(p)
    \/ DiscordReasonPrompt(p)
    \/ DiscordReasonPoll(p)
    \/ Respond(p)
    \/ WithLogLock(p)
    \/ WriteCascadeState(p)
NextLive ==
    \/ \E p \in Procs :
         \/ StartAtOnce(p)
         \/ ProgramStep(p)
         \/ TelegramThrows(p)
         \/ OperatorDecides(p) /\ signals[p] = <<>>
         \/ OperatorGivesReason(p) /\ reasonInput'[p].text \in {<<>>, <<" ", "a", "b">>}
    \/ Tick
InitLive ==
    InitWith([Host EXCEPT !.lockFiles =
        {NoFile, [exists |-> TRUE, createdAt |-> 0 - QuestionTimeoutMs - 1, owner |-> 0]}])
SpecLive ==
    /\ InitLive
    /\ [][NextLive]_vars
    /\ WF_vars(Tick)
    /\ \A p \in Procs : WF_vars(ProgramStep(p))

\* One request whose reason prompt the operator may answer with a text that
\* holds a short secret, under a DMPLZ_REJECT_REASON_MAX_CHARS of the length
\* of that text or of one character; a process that died may have left its
\* lock token.
SecretReason == <<"t", "o", "k", "e", "n", "=", "a">>
OperatorTypesSecret(p) ==
    /\ OnGrid
    /\ proc[p].pc \in {"t_rwait", "d_rpoll"}
    /\ reasonInput[p].kind = None
    /\ reasonInput' = [reasonInput EXCEPT ![p] = [kind |-> "text", text |-> SecretReason]]
    /\ UNCHANGED << now, config, proc, files, signals >>

InitLimit ==
    InitWith([Host EXCEPT
        !.maxChars = {RejectReasonMaxChars, SecretMaxChars},
        !.lockFiles =
            {NoFile, [exists |-> TRUE, createdAt |-> 0 - QuestionTimeoutMs - 1, owner |-> 0]}])
NextLimit ==
    \/ Start(1)
    \/ ProgramStep(1)
    \/ TelegramThrows(1)
    \/ OperatorDecides(1)
    \/ OperatorGivesReason(1)
    \/ OperatorTypesSecret(1)
    \/ Tick
SpecLimit == InitLimit /\ [][NextLimit]_vars

\* Two requests of one session that the operator approved for the session
\* and that have released the user lock; each is about to record its tool.
\* saveSessionCache holds no lock: the read of the cache file and its write
\* are two file operations, between which the other process can run.
Recording(toolName) ==
    Returned([InitProc EXCEPT !.tool = toolName, !.keyed = TRUE, !.prompts = 1],
             "approve_session", <<>>, None, "ApprovedSession")

InitRecord ==
    /\ InitWith([Host EXCEPT
            !.tools = {"Bash", "Write"},
            !.procs = { Recording(toolName) : toolName \in {"Bash", "Write"} },
            !.cacheFiles = {NoFile, SessionCacheFile("garbage", {}, 0)}
                           \cup AgedSessionCaches])

\* loadSessionCache, called by saveSessionCache.
RecordLoad(p) ==
    /\ proc[p].pc = "respond"
    /\ proc[p].response.type = "approve_session"
    /\ proc' = [proc EXCEPT ![p].pc = "save_write", ![p].loaded = LoadSessionCache]
    /\ UNCHANGED << now, config, files, operator >>

\* The push of the tool and writeFileSync; then clearCascadeState and outputResult(true).
RecordWrite(p) ==
    /\ proc[p].pc = "save_write"
    /\ sessionCache' = SessionCacheWritten(proc[p].loaded, proc[p].tool)
    /\ cascadeFile' = NoFile
    /\ proc' = [proc EXCEPT ![p] =
                   Done([@ EXCEPT !.loaded = NoFile], OutputResult(TRUE, NoMessage, NoMessage))]
    /\ UNCHANGED << now, config, lockFile, logFiles, operator >>

NextRecord == \E p \in Procs : RecordLoad(p) \/ RecordWrite(p)
SpecRecord == InitRecord /\ [][NextRecord]_vars

\* The operator presses a button of the prompt of a request that has expired,
\* adds a reaction to it, or replies to it.  The process of the request has
\* thrown 'Timeout waiting for permission response' and has exited; a later
\* request skips the callback queries of another prompt and polls only the
\* reactions of its own prompt: nothing answers the input.
OperatorLateInput(p) ==
    /\ OnGrid
    /\ proc[p].pc = "done"
    /\ proc[p].nstate = "Expired"
    /\ proc[p].lateInputs < MaxLateInputs
    /\ proc' = [proc EXCEPT ![p].lateInputs = @ + 1]
    /\ UNCHANGED << now, config, files, operator >>

NextLate ==
    \/ Next
    \/ \E p \in Procs : OperatorLateInput(p)

SpecLate == Init /\ [][NextLate]_vars

\* The rejection log alone, under any rotation threshold and any retention
\* count (parseNumberEnv accepts a negative one): rejections are appended one
\* after the other to a log that starts absent.  Here the clock counts the
\* appends, and the request ids are given in the order of the appends, so
\* that a line tells when it was written.
InitLog ==
    InitWith([Host EXCEPT !.providers = {"telegram"}, !.tools = {},
                          !.rotateBytes = 0..MaxRotateBytes,
                          !.maxFiles = (0 - 1)..MaxGenerations,
                          !.generations = MaxGenerations])

LogTools == {"Bash", "Write"}

LogLines ==
    { BuildRejectLogLine(n, tool, <<"a">>, "user_input") : n \in 1..MaxAppends, tool \in LogTools }

RejectLogAppend ==
    /\ now < MaxAppends
    /\ \E tool \in LogTools :
          LET line == BuildRejectLogLine(now + 1, tool, <<"a">>, "user_input")
              after == AppendRejectLog(logFile, logRotated, line,
                                       rejectReasonLogRotateBytes,
                                       rejectReasonLogMaxFiles)
          IN  /\ logFile' = after.active
              /\ logRotated' = after.rotated
    /\ logDir' = TRUE                  \* ensureRejectLogDirectory
    /\ now' = now + 1
    /\ UNCHANGED << config, proc, lockFile, cascadeFile, sessionCache,
                    logLockFile, operator >>

SpecLog == InitLog /\ [][RejectLogAppend]_vars

\* A token left by a holder that crashed: already older than the question
\* timeout when the first request starts, or written at that moment.
OrphanTokens ==
    { [exists |-> TRUE, createdAt |-> c, owner |-> 0] : c \in {0 - QuestionTimeoutMs - 1, 0} }

InitOrphan == InitWith([Host EXCEPT !.lockFiles = OrphanTokens])
SpecOrphan == InitOrphan /\ [][Next]_vars

InitCache == InitWith([Host EXCEPT !.cacheFiles = SessionCacheFiles])
SpecCache == InitCache /\ [][Next]_vars

\* Two rejections that reach their append together (requests of two lock
\* keys, whose negotiations run side by side), on a host whose log holds the
\* line of an earlier request or none, under any small rotation threshold and
\* retention count.
Rejecting ==
    Returned([InitProc EXCEPT !.tool = "Bash", !.keyed = TRUE, !.prompts = 1],
             "reject", <<>>, "explicit_skip",
             RejectedStateUnder(<<>>, "explicit_skip", RejectReasonMaxChars))

EarlierLogs ==
    { NoFile,
      [exists |-> TRUE, lines |-> << BuildRejectLogLine(0, "Bash", <<"a">>, "user_input") >>] }

InitAppenders ==
    InitWith([Host EXCEPT !.procs = {Rejecting}, !.logs = EarlierLogs,
                          !.rotateBytes = 0..MaxRotateBytes,
                          !.maxFiles = 0..MaxGenerations,
                          !.generations = MaxGenerations])

NextAppenders ==
    \/ \E p \in Procs :
         \/ Respond(p)
         \/ LogLockTry(p)
         \/ LogStat(p)
         \/ LogRotate(p)
         \/ LogAppendLine(p)
         \/ LogUnlock(p)
         \/ WriteCascadeState(p)
    \/ Tick

SpecAppenders == InitAppenders /\ [][NextAppenders]_vars

\* One rejection whose reason holds a key and a value that look like a
\* secret, under the default DMPLZ_REJECT_REASON_MAX_CHARS; nothing else runs.
SecretKeys == { <<"t", "o", "k", "e", "n">>, <<"A", "P", "I", "-", "K", "e", "y">>, <<"p", "a", "s", "s", "w", "o", "r", "d">> }
SecretSeparators == { <<"=">>, <<":", " ">>, <<" ", "=", " ">> }
ExampleSecret == <<"a", "b", "c", "d", "e", "f", "1", "2", "3", "4", "5", "6", "7", "8", "9", "0", "a", "b", "c", "d", "e", "f", "1", "2", "3", "4", "5", "6", "7", "8", "9", "0">>
SecretValues == { <<"a", "b", "c">>, <<"a", "b", "c", "d", "1", "2", "3", "4">>, <<"a", "b", "c", "d", "1", "2", "3", "4", "5">>, ExampleSecret }
SecretPrefixes == { <<>>, <<"n", "o", " ">> }
SecretSuffixes == { <<>>, <<",", " ", "x">> }

SecretTexts ==
    { prefix \o key \o separator \o value \o suffix :
        prefix \in SecretPrefixes, key \in SecretKeys, separator \in SecretSeparators,
        value \in SecretValues, suffix \in SecretSuffixes }

RejectingWith(reason) ==
    Returned([InitProc EXCEPT !.tool = "Bash", !.keyed = TRUE, !.prompts = 1,
                              !.reasonPrompts = 1],
             "reject", reason, "user_input",
             RejectedStateUnder(reason, "user_input", DefaultRejectReasonMaxChars))

InitMask ==
    /\ InitWith([Host EXCEPT !.maxChars = {DefaultRejectReasonMaxChars},
                             !.procs = {InitProc}
                                       \cup { RejectingWith(reason) : reason \in SecretTexts }])
    /\ proc[1] # InitProc
    /\ \A p \in Procs \ {1} : proc[p] = InitProc

NextMask ==
    \E p \in Procs :
        \/ Respond(p)
        \/ WithLogLock(p)
        \/ WriteCascadeState(p)

SpecMask == InitMask /\ [][NextMask]_vars

\* A host on which the directory of the rejection log does not exist yet.
InitDir == InitWith([Host EXCEPT !.logDirs = {FALSE}])
SpecDir == InitDir /\ [][Next]_vars

(***************************************************************************)
(* Properties.                                                             *)
(***************************************************************************)
Ended(p) == proc[p].pc = "done"
Denied(p) == Ended(p) /\ proc[p].output.behavior = "deny"
InNegotiation(p) ==
    proc[p].holdsLock /\ proc[p].nstate \in {"WaitingDecision", "WaitingReason"}

\* The lines of request p in the rejection log, over the active file and the
\* rotated generations.
LinesIn(file, p) ==
    IF file.exists
    THEN Cardinality({i \in 1..Len(file.lines) : file.lines[i].request_id = p})
    ELSE 0

RECURSIVE LinesInRotated(_, _)
LinesInRotated(g, p) ==
    IF g = 0 THEN 0 ELSE LinesIn(logRotated[g], p) + LinesInRotated(g - 1, p)

LinesOf(p) == LinesIn(logFile, p) + LinesInRotated(MaxFiles, p)

\* C1 (as claimed): at most one negotiation of the key is between acquiring the
\* User Lock and releasing it, waiting for the operator with a live prompt; a
\* second negotiation does not reach its prompt before the first released.
C1_MutualExclusion ==
    \A p, q \in Procs : p # q => ~(InNegotiation(p) /\ InNegotiation(q))

\* C2 (as claimed): the cascade state of a rejection is written before the lock
\* is released, so a negotiation that started after the release and acquired
\* the lock has read that cascade state and has sent no prompt.
C2_NextHolderReadsCascade ==
    \A p, q \in Procs :
        ( /\ p # q
          /\ proc[p].pc \in {"log_lock", "cascade_write"}
          /\ proc[q].pc \notin {"init", "done"}
          /\ proc[q].lockStartTime > proc[p].logStartTime )
        => proc[q].prompts = 0

\* C3: a negotiation for the key that starts within the cascade window of a
\* rejection sends no decision prompt and no reason prompt, and ends as deny
\* with the deny message of the rejection's reason and reasonSource.
C3_CascadeAutoReject ==
    \A q \in Procs :
        LET c == proc[q].cascadeAtStart IN
        (proc[q].keyed /\ c.exists) =>
            /\ proc[q].prompts = 0
            /\ proc[q].reasonPrompts = 0
            /\ Ended(q) =>
                 /\ proc[q].output =
                       OutputResult(FALSE, BuildDenyMessage(c.reason, c.reasonSource),
                                    NoMessage)
                 /\ \E p \in Procs \ {q} :
                       /\ c.requestId = p
                       /\ Denied(p)
                       /\ proc[p].output.message = proc[q].output.message
                       /\ NormalizedReason(proc[p].response) = c.reason
                       /\ FinalReasonSource(proc[p].response) = c.reasonSource

\* C3 witness: a request started after a rejection with a reason, within its
\* window, and was denied with that reason.
C3_Witness ==
    \E q \in Procs :
        /\ Ended(q)
        /\ proc[q].keyed
        /\ proc[q].cascadeAtStart.exists
        /\ proc[q].cascadeAtStart.reasonSource = "user_input"
        /\ now > proc[q].cascadeAtStart.createdAt
        /\ proc[q].output.message = MsgReason(proc[q].cascadeAtStart.reason)

\* C4 (as claimed): a request whose lock wait or decision wait ran out of time
\* writes an output that is neither the output of an approval nor a denial.
C4_TimeoutSurfacedDistinctly ==
    \A p \in Procs :
        (Ended(p) /\ proc[p].nstate \in {"LockTimeout", "Expired"}) =>
            /\ proc[p].output # OutputResult(TRUE, NoMessage, NoMessage)
            /\ proc[p].output.behavior # "deny"

\* C5 (as claimed): once WaitingReason is entered the negotiation does not
\* return to WaitingDecision and does not end as Approved or ApprovedSession.
C5_NoReturnFromWaitingReason ==
    [][\A p \in Procs :
          proc[p].nstate = "WaitingReason" =>
             proc'[p].nstate \notin {"WaitingDecision", "Approved", "ApprovedSession"}]_vars

\* C6: a rejection whose reason wait ended without input is a decision: deny,
\* with an empty reason, reasonSource timeout and the timeout variant of the
\* deny message, which differs from the two other variants.
C6_ReasonTimeoutIsDeny ==
    /\ \A p \in Procs :
          ( /\ Ended(p)
            /\ proc[p].response.type = "reject"
            /\ proc[p].response.reasonSource = "timeout" ) =>
              /\ proc[p].output.behavior = "deny"
              /\ proc[p].output.message = MsgTimeout
              /\ proc[p].nstate = "RejectedNoReason"
              /\ NormalizedReason(proc[p].response) = <<>>
              /\ FinalReasonSource(proc[p].response) = "timeout"
    /\ MsgTimeout # MsgNoReason
    /\ \A r \in ReasonTexts :
          MsgTimeout # MsgReason(NormalizeRejectReason(r, RejectReasonMaxChars))

\* C6 witness: the operator rejected, a reason prompt was sent, the wait ended
\* without input and the hook wrote the timeout deny.
C6_Witness ==
    \E p \in Procs :
        /\ Ended(p)
        /\ proc[p].response.reasonSource = "timeout"
        /\ proc[p].reasonPrompts = 1
        /\ proc[p].nstate = "RejectedNoReason"
        /\ proc[p].output.message = MsgTimeout

\* C7 (as claimed): every request writes its decision at most the question
\* timeout after it started.
C7_ReturnWithinDeadline ==
    \A p \in Procs : Ended(p) => ~proc[p].pastDeadline

\* C8 (as claimed): the reason wait lasts at most
\* min(reject reason timeout, time remaining when the reject was seen).
C8_ReasonWaitBounded ==
    \A p \in Procs : ~proc[p].reasonWaitOverran

\* C9 (as claimed): every deny whose log append did not fail has exactly one
\* line of its request in the rejection log.
C9_OneLinePerReject ==
    \A p \in Procs :
        (Denied(p) /\ DiagLogFailed \notin proc[p].stderr) => LinesOf(p) = 1

\* C9 (amended): a deny that follows the operator's own rejection has one line
\* of its request in the log, or none and a diagnostic if the append failed; a
\* cascade auto-reject has none; the line is there before the cascade state of
\* the request is written, and a failed append goes on to the cascade write and
\* the deny.
C9_OneLinePerOperatorReject ==
    \A p \in Procs :
        /\ LinesOf(p) = proc[p].appended
        /\ proc[p].appended <= 1
        /\ (Denied(p) /\ proc[p].nstate # "CascadeRejected") =>
              (proc[p].appended = 1 <=> DiagLogFailed \notin proc[p].stderr)
        /\ (Denied(p) /\ proc[p].nstate = "CascadeRejected") => proc[p].appended = 0
        /\ proc[p].pc \in {"respond", "log_lock"} =>
              ~(cascadeFile.exists /\ cascadeFile.requestId = p)
        /\ DiagLogFailed \in proc[p].stderr =>
              \/ proc[p].pc = "cascade_write"
              \/ Denied(p)

\* C9 witness: the operator rejected one request, whose line is in the log, and
\* the next request was auto-rejected without a line.
C9_Witness ==
    \E p, q \in Procs :
        /\ Denied(p)
        /\ proc[p].nstate \in {"RejectedWithReason", "RejectedNoReason"}
        /\ LinesOf(p) = 1
        /\ Denied(q)
        /\ proc[q].nstate = "CascadeRejected"
        /\ LinesOf(q) = 0
        /\ cascadeFile.exists
        /\ cascadeFile.requestId = p

\* C10: whether or not the rejection log could be written, a rejection ends
\* with the deny of its reason and reasonSource, and a failure shows only as
\* the diagnostic line of the append.
C10_LogFailureKeepsDecision ==
    \A p \in Procs :
        (Ended(p) /\ proc[p].response.type = "reject") =>
            LET reason == NormalizedReason(proc[p].response)
                reasonSource == FinalReasonSource(proc[p].response)
            IN  /\ proc[p].output =
                      OutputResult(FALSE, BuildDenyMessage(reason, reasonSource),
                                   BuildRejectionSystemMessage(reason, reasonSource))
                /\ proc[p].stderr \subseteq {DiagLogFailed}

\* C10 witness: the append of a rejection with a reason failed, and the hook
\* wrote the deny with that reason.
C10_Witness ==
    \E p \in Procs :
        /\ Ended(p)
        /\ DiagLogFailed \in proc[p].stderr
        /\ proc[p].appended = 0
        /\ proc[p].response.reasonSource = "user_input"
        /\ proc[p].output.behavior = "deny"
        /\ proc[p].output.message = MsgReason(NormalizedReason(proc[p].response))

\* The positions of main after the try/finally around requestPermission.
AfterLock(p) == proc[p].pc \in {"respond", "log_lock", "cascade_write"}

\* C11: a request has called the release of the user lock it acquired, and its
\* token is not on disk, once requestPermission is over: when it handles the
\* response and when it has ended, whatever the path (cascade auto-reject,
\* approve, approve for the session, reject, timeout, a provider call that threw).
C11_LockReleasedOnEveryPath ==
    \A p \in Procs :
        (AfterLock(p) \/ Ended(p)) =>
            /\ ~proc[p].holdsLock
            /\ ~(lockFile.exists /\ lockFile.owner = p)

\* C11 witness: a request whose prompt was sent ended by an error thrown by a
\* provider call, and no token is left.
C11_Witness ==
    \E p \in Procs :
        /\ Ended(p)
        /\ proc[p].prompts = 1
        /\ proc[p].nstate = "Error"
        /\ ~proc[p].holdsLock
        /\ ~lockFile.exists

\* C14 (as claimed): a negotiation that is polling for a decision or for a
\* reason ends without a decision only when its deadline is exhausted; an error
\* of a platform call alone does not end it.
C14_PollErrorIsNoSignal ==
    [][\A p \in Procs :
          ( /\ proc[p].pc \in {"t_wait", "t_rwait", "d_poll", "d_rpoll"}
            /\ proc'[p].pc = "done" ) =>
              now - proc[p].startTime >= proc[p].timeoutMs]_vars

\* C15 (as claimed): when the operator rejected and the step that sends the
\* reason prompt ends without a reason prompt sent, the negotiation returns
\* reject with an empty reason and reasonSource explicit_skip.
C15_PromptSendFailureIsExplicitSkip ==
    [][\A p \in Procs :
          ( /\ proc[p].pc \in {"t_reason", "d_reason"}
            /\ proc'[p] # proc[p]
            /\ proc'[p].reasonPrompts = proc[p].reasonPrompts ) =>
              /\ proc'[p].pc = "respond"
              /\ proc'[p].response =
                    [type |-> "reject", reason |-> <<>>, reasonSource |-> "explicit_skip"]]_vars

\* C18 (as claimed): for a request that has released the lock, calling its
\* release closure again leaves the token of another request in place.
C18_ReleaseIdempotent ==
    \A p \in Procs :
        (AfterLock(p) /\ lockFile.exists /\ lockFile.owner # p) =>
            ReleaseLock(lockFile) = lockFile

\* C19 (as claimed): every step that changes the cascade state of the key is a
\* step of the request that holds the user lock of the key.
C19_CascadeOnlyUnderLock ==
    [][cascadeFile' # cascadeFile =>
          \E p \in Procs :
             /\ proc'[p] # proc[p]
             /\ proc[p].holdsLock
             /\ lockFile.exists
             /\ lockFile.owner = p]_vars

\* The request ended by an error or a timeout outside the session cache: a
\* platform call threw, or the lock wait or the decision wait ran out of time.
PlatformFailed(p) == proc[p].nstate \in {"Error", "LockTimeout", "Expired"}

\* The request started and asks for a tool that needs permission.
AsksPermission(p) == proc[p].pc # "init" /\ proc[p].tool # "AskUserQuestion"

C13_CacheMissNeverApproves ==
    \A p \in Procs :
        ( /\ Ended(p)
          /\ AsksPermission(p)
          /\ proc[p].output.behavior = "allow"
          /\ proc[p].prompts = 0
          /\ ~PlatformFailed(p) ) =>
            /\ sessionCache.exists
            /\ sessionCache.kind = "cache"
            /\ proc[p].tool \in sessionCache.allowedTools

\* The decision that leads a negotiation from WaitingDecision to the state ns.
DecisionOf(ns) ==
    IF ns = "Approved" THEN "approve"
    ELSE IF ns = "ApprovedSession" THEN "approve_session"
    ELSE "reject"

\* C16: a negotiation leaves WaitingDecision for an approval or for the reason
\* wait only by a decision the operator gave on its own prompt message (on
\* Telegram the first such decision); the clicks on an older prompt, in another
\* chat and on the prompt of another request, and the reactions of bots, which
\* are always there, do not resolve it.
C16_OnlyOwnPromptResolves ==
    [][\A p \in Procs :
          ( /\ proc[p].nstate = "WaitingDecision"
            /\ proc'[p].nstate \in {"Approved", "ApprovedSession", "WaitingReason"} ) =>
              /\ DecisionOf(proc'[p].nstate) \in Range(signals[p])
              /\ provider = "telegram" => DecisionOf(proc'[p].nstate) = Head(signals[p])]_vars

\* C16 witness: two requests wait for a decision on Telegram, and the operator
\* has clicked on the prompt of one of them only.
C16_Witness ==
    \E p, q \in Procs :
        /\ p # q
        /\ proc[p].pc = "t_wait"
        /\ proc[q].pc = "t_wait"
        /\ signals[p] # <<>>
        /\ signals[q] = <<>>
        /\ Len(PendingCallbackQueries(q)) > Len(AcceptedQueries(q))

\* The request is inside acquireUserLock.
InAcquire(r) == r.pc \in {"acquire", "lock_stat", "lock_unlink"}

\* C17: acquireUserLock ends.  A request is inside it for less than the
\* timeout plus one sleep; it leaves it either with the token it created
\* exclusively at that moment, or by the lock-timeout error once the timeout
\* has elapsed.  A token of a crashed holder that is older than the timeout
\* when a waiter looks at it is removed by that waiter: no waiter sleeps after
\* having seen it.
C17_AcquireTerminates ==
    [][\A p \in Procs :
          /\ InAcquire(proc'[p]) =>
                now' - proc'[p].lockStartTime <= QuestionTimeoutMs + LockPollMs - 1
          /\ (InAcquire(proc[p]) /\ ~InAcquire(proc'[p])) =>
                \/ /\ proc'[p].pc = "locked"
                   /\ proc'[p].holdsLock
                   /\ ~lockFile.exists
                   /\ lockFile' = [exists |-> TRUE, createdAt |-> now, owner |-> p]
                \/ /\ proc'[p].pc = "done"
                   /\ proc'[p].nstate = "LockTimeout"
                   /\ now - proc[p].lockStartTime >= QuestionTimeoutMs
                   /\ lockFile' = lockFile
          /\ (proc[p].pc = "lock_stat" /\ proc'[p].pc = "acquire") =>
                ~(lockFile.exists /\ now - lockFile.createdAt > QuestionTimeoutMs)
          /\ (proc[p].pc = "lock_unlink" /\ proc'[p] # proc[p]) => ~lockFile'.exists]_vars

\* C17 witness: the token of a crashed holder blocked one request until its
\* lock timeout; the next request removed the token and holds the lock.
C17_Witness ==
    \E p, q \in Procs :
        /\ proc[p].nstate = "LockTimeout"
        /\ proc[q].holdsLock
        /\ lockFile.exists
        /\ lockFile.owner = q

\* The generation files numbered 1..maxFiles that exist.
Generations(rotated, maxFiles) ==
    { g \in DOMAIN rotated : g <= maxFiles /\ rotated[g].exists }

\* C20: when the active log file is larger than rotateBytes and maxFiles >= 1,
\* the next append rotates first: the active file becomes generation 1, each
\* generation i below maxFiles becomes generation i+1, what was generation
\* maxFiles is gone, the generation files are the earlier ones kept plus
\* exactly one, and the appended line is the only content of a fresh active
\* file; when the size is at most rotateBytes the append does not rotate and
\* the line is added at the end of the active file.
C20_AppendRotatesAboveThreshold ==
    \A rotateBytes \in 0..MaxRotateBytes, maxFiles \in 1..MaxGenerations,
       line \in LogLines :
        LET after == AppendRejectLog(logFile, logRotated, line, rotateBytes, maxFiles)
            size == IF logFile.exists THEN Len(logFile.lines) ELSE 0
        IN  IF size > rotateBytes
            THEN /\ after.rotated[1] = logFile
                 /\ \A i \in 1..(maxFiles - 1) : after.rotated[i + 1] = logRotated[i]
                 /\ Cardinality(Generations(after.rotated, maxFiles))
                      = Cardinality(Generations(logRotated, maxFiles - 1)) + 1
                 /\ after.active = [exists |-> TRUE, lines |-> << line >>]
            ELSE /\ after.rotated = logRotated
                 /\ after.active.exists
                 /\ after.active.lines
                      = (IF logFile.exists THEN logFile.lines ELSE <<>>) \o << line >>

\* C20 witness: appends have rotated the log twice, so that a generation was
\* shifted, and the last line appended is alone in a fresh active file.
C20_Witness ==
    /\ logFile.exists
    /\ Len(logFile.lines) = 1
    /\ logRotated[1].exists
    /\ logRotated[2].exists
    /\ logRotated[1] # logRotated[2]

\* The lines of a file, none when it does not exist.
LinesOfFile(file) == IF file.exists THEN file.lines ELSE <<>>

\* The request ids of the lines of a file, in the order of the lines.
RequestIds(file) == [i \in 1..Len(LinesOfFile(file)) |-> LinesOfFile(file)[i].request_id]

\* The request ids in generations g, g-1, .. 1, in that order.
RECURSIVE RotatedIds(_, _)
RotatedIds(rotated, g) ==
    IF g = 0 THEN <<>> ELSE RequestIds(rotated[g]) \o RotatedIds(rotated, g - 1)

\* The request ids the log holds: the highest generation first, the active file last.
RetainedIds(active, rotated) ==
    RotatedIds(rotated, Len(rotated)) \o RequestIds(active)

\* The file whose entries a rotation pushes beyond the retention limit:
\* generation maxFiles, and the active file itself when no generation is kept.
OldestRetained(active, rotated, maxFiles) ==
    IF maxFiles >= 1 THEN rotated[maxFiles] ELSE active

\* C21: starting from an empty log directory, after any sequence of appends
\* at most maxFiles generation files exist; read from the highest generation
\* down to the active file, the entries are the last appended ones in the
\* order of their appends, each once (a lower generation holds newer entries
\* than a higher one, the active file the newest, and no retained entry is
\* lost or duplicated); and an append removes entries only when it rotates,
\* and then exactly those of the oldest generation, the one the rotation
\* pushes beyond the retention limit.
C21_RetentionKeepsNewestInOrder ==
    [][ LET before == RetainedIds(logFile, logRotated)
            after == RetainedIds(logFile', logRotated')
            removed == Range(before) \ Range(after)
            oldest == OldestRetained(logFile, logRotated, rejectReasonLogMaxFiles)
        IN  /\ Cardinality({ g \in DOMAIN logRotated' : logRotated'[g].exists })
                 <= Max2(rejectReasonLogMaxFiles, 0)
            /\ \A i \in 1..Len(after) : after[i] = now' - Len(after) + i
            /\ \/ removed = {}
               \/ /\ Len(LinesOfFile(logFile)) > rejectReasonLogRotateBytes
                  /\ removed = Range(RequestIds(oldest))
      ]_vars

\* C21 witness: with two generations kept, both exist and a rotation has
\* deleted the entries of what was the oldest one.
C21_Witness ==
    /\ rejectReasonLogMaxFiles = 2
    /\ logRotated[1].exists
    /\ logRotated[2].exists
    /\ Len(RetainedIds(logFile, logRotated)) < now

\* C29: when the active log file is larger than rotateBytes and maxFiles <= 0,
\* the rotation step truncates the active file to empty and makes no
\* generation file, and the append that follows it leaves the active file
\* with exactly the new line (the truncation is done before the line is
\* written).
C29_TruncatesWhenNoGenerationIsKept ==
    \A rotateBytes \in 0..MaxRotateBytes, maxFiles \in (0 - 1)..0, line \in LogLines :
        (logFile.exists /\ Len(logFile.lines) > rotateBytes) =>
            LET rotated == RotateRejectLogIfNeeded(logFile, logRotated, rotateBytes, maxFiles)
                after == AppendRejectLog(logFile, logRotated, line, rotateBytes, maxFiles)
            IN  /\ rotated.active = [exists |-> TRUE, lines |-> <<>>]
                /\ rotated.rotated = logRotated
                /\ after.active = [exists |-> TRUE, lines |-> << line >>]
                /\ after.rotated = logRotated

\* C29 witness: with no generation kept, an append has truncated a log that
\* was over the threshold: of several appended lines the last is alone in
\* the active file and no generation file exists.
C29_Witness ==
    /\ rejectReasonLogMaxFiles <= 0
    /\ now >= 2
    /\ logFile.exists
    /\ RequestIds(logFile) = << now >>
    /\ \A g \in DOMAIN logRotated : ~logRotated[g].exists

\* C22 (as claimed): a rejection whose log directory does not exist yet ends
\* with the directory created and its line written to the log file.
C22_AppendCreatesMissingDirectory ==
    \A p \in Procs :
        ( /\ proc[p].pc \in {"cascade_write", "done"}
          /\ proc[p].response.type = "reject" )
        => /\ logDir
           /\ LinesOf(p) = 1

\* C23: the rotate-then-append sequences of concurrent appenders never overlap:
\* at most one process is between the exclusive creation of the lock file and
\* its unlink, the lock file exists exactly then, and only that process
\* changes the log or its generations; so the sequence of an appender acts as
\* one step on the log it found when it took the lock (its whole line is
\* there, and no line is lost to the rotation of another appender); and when
\* the sequence ends, also by an error of the rotation or of the write, the
\* lock file is removed.
C23_AppendSequencesDoNotOverlap ==
    [][ /\ Cardinality({ p \in Procs : InLogAction(proc'[p]) }) <= 1
        /\ logLockFile' <=> \E p \in Procs : InLogAction(proc'[p])
        /\ << logFile', logRotated' >> # << logFile, logRotated >> =>
              \E p \in Procs : InLogAction(proc[p]) /\ proc'[p] # proc[p]
        /\ \A p \in Procs :
              /\ (proc[p].pc = "log_append" /\ proc'[p].pc = "log_unlock") =>
                    [active |-> logFile', rotated |-> logRotated'] =
                        AppendRejectLog(proc[p].logSeen.active, proc[p].logSeen.rotated,
                                        BuildRejectLogLine(p, proc[p].tool,
                                            NormalizedReason(proc[p].response),
                                            FinalReasonSource(proc[p].response)),
                                        rejectReasonLogRotateBytes, rejectReasonLogMaxFiles)
              /\ (InLogAction(proc[p]) /\ ~InLogAction(proc'[p])) => ~logLockFile'
      ]_vars

\* C23 witness: of two appenders that reached the log together, one found the
\* lock file and retried; both have appended, the second after rotating the
\* line of the first into generation 1, and the lock file is gone.
C23_Witness ==
    /\ \A p \in Procs : proc[p].pc = "done" /\ proc[p].appended = 1
    /\ now > 0
    /\ logRotated[1].exists
    /\ logFile.exists
    /\ ~logLockFile

\* A value as the claim says it is stored: the first 4 and the last 4
\* characters with the middle elided, or a fixed marker for a value of at
\* most 8 characters.
PartiallyMasked(value) ==
    IF Len(value) <= 8 THEN <<"*", "*", "*">>
    ELSE SubSeq(value, 1, 4) \o <<".", ".", ".">> \o SubSeq(value, Len(value) - 3, Len(value))

\* C24: a rejection whose reason holds a secret-looking key and value (such
\* as token=abcdef1234567890abcdef1234567890) is stored in the rejection log
\* with the value partially masked and the rest of the reason as it was,
\* while the deny message of the same rejection carries the reason unmasked.
C24_LogMasksSecretsDenyMessageDoesNot ==
    \A p \in Procs :
        proc[p].response.type = "reject" =>
            LET reason == NormalizedReason(proc[p].response)
                lines == LinesOfFile(logFile)
            IN  \A prefix \in SecretPrefixes, key \in SecretKeys,
                   separator \in SecretSeparators, value \in SecretValues,
                   suffix \in SecretSuffixes :
                    reason = prefix \o key \o separator \o value \o suffix =>
                        /\ \A i \in 1..Len(lines) :
                              lines[i].request_id = p =>
                                  lines[i].reason = prefix \o key \o <<"=">>
                                                      \o PartiallyMasked(value) \o suffix
                        /\ proc[p].appended = 1 => LinesOf(p) = 1
                        /\ Ended(p) => proc[p].output.message = MsgReason(reason)

\* C24 witness: the rejection with the reason token=abcdef1234567890abcdef1234567890
\* has ended; its line holds token=abcd...7890 and its deny message the reason.
C24_Witness ==
    \E p \in Procs :
        /\ Ended(p)
        /\ NormalizedReason(proc[p].response) = <<"t", "o", "k", "e", "n", "=">> \o ExampleSecret
        /\ logFile.exists
        /\ Len(logFile.lines) = 1
        /\ logFile.lines[1].request_id = p
        /\ logFile.lines[1].reason =
              <<"t", "o", "k", "e", "n", "=", "a", "b", "c", "d", ".", ".", ".", "7", "8", "9", "0">>
        /\ proc[p].output.message =
              MsgReason(<<"t", "o", "k", "e", "n", "=">> \o ExampleSecret)

\* C25 (as claimed; the Telegram provider contradicts it): a reason text that is a configured no-reason keyword, in
\* any letter case and with surrounding whitespace, is classified
\* explicit_skip with an empty reason and never user_input, whichever
\* provider collected the text.
C25_NoReasonKeywordIsExplicitSkip ==
    [][ \A p \in Procs :
          ( /\ proc[p].pc \in {"t_rwait", "d_rpoll"}
            /\ proc'[p].pc = "respond"
            /\ proc'[p].response.reasonSource # "timeout"
            /\ reasonInput[p].kind = "text"
            /\ NormalizeKeyword(reasonInput[p].text) \in RejectReasonNoReasonKeywords )
          => /\ FinalReasonSource(proc'[p].response) = "explicit_skip"
             /\ NormalizedReason(proc'[p].response) = <<>>
      ]_vars

\* The request took a text message that is a no-reason keyword as the answer
\* to its reason prompt.
TookKeyword(p) ==
    /\ proc[p].pc = "respond"
    /\ proc[p].reasonSeen # None
    /\ NormalizeKeyword(proc[p].reasonSeen) \in RejectReasonNoReasonKeywords

\* C25 (amended): a no-reason keyword collected by the Discord provider, in
\* any letter case and with surrounding whitespace, is classified
\* explicit_skip with an empty reason; the Telegram provider, whose prompt
\* offers a button for rejecting without a reason, does not compare the text
\* with the keywords and classifies it user_input with the text as reason.
C25_KeywordIsExplicitSkipOnDiscordOnly ==
    \A p \in Procs :
       TookKeyword(p) =>
          IF provider = "discord"
          THEN /\ FinalReasonSource(proc[p].response) = "explicit_skip"
               /\ NormalizedReason(proc[p].response) = <<>>
          ELSE /\ FinalReasonSource(proc[p].response) = "user_input"
               /\ NormalizedReason(proc[p].response) = Trim(proc[p].reasonSeen)

\* C25 witness: the Discord provider took the keyword "N " as the answer.
C25_Witness ==
    \E p \in Procs : TookKeyword(p) /\ provider = "discord"

\* The age of the session-cache record, and the step by which a request
\* reads the record in isToolAllowedInSession.
CacheAge == now - sessionCache.createdAt
ReadsSessionCache(p) ==
    /\ proc[p].pc = "init"
    /\ proc'[p].pc # "init"
    /\ proc'[p].tool # "AskUserQuestion"
RecordsTool(p) ==
    /\ proc[p].pc = "respond"
    /\ proc[p].response.type = "approve_session"
    /\ proc'[p].pc # "respond"

\* C26: a session-cache record is honoured while its age is under 24 hours
\* and is a cache miss from 24 hours on; the read leaves the record, expired
\* or not, where it is; recording a further tool into an unexpired record
\* keeps its createdAt and every tool it allowed.
C26_CacheValidFor24HoursFromCreation ==
    [][ \A p \in Procs :
          /\ ( ReadsSessionCache(p) /\ sessionCache.exists /\ sessionCache.kind = "cache" ) =>
                /\ sessionCache' = sessionCache
                /\ proc'[p].nstate = "CacheHit" <=>
                      /\ CacheAge < SessionCacheTtlMs
                      /\ proc'[p].tool \in sessionCache.allowedTools
          /\ ( /\ RecordsTool(p)
               /\ sessionCache.exists
               /\ sessionCache.kind = "cache"
               /\ CacheAge < SessionCacheTtlMs ) =>
                /\ sessionCache'.exists
                /\ sessionCache'.createdAt = sessionCache.createdAt
                /\ sessionCache'.allowedTools = sessionCache.allowedTools \cup {proc[p].tool}
      ]_vars

\* C26 witness: the record that approved another tool now approves Bash too,
\* with its createdAt unchanged, and a request that started when the record
\* was 24 hours old was not approved by it: it prompted the operator.
C26_Witness ==
    /\ sessionCache = SessionCacheFile("cache", {"Bash", "Write"},
                                       EnvQuantum - SessionCacheTtlMs)
    /\ \E p \in Procs :
          /\ proc[p].tool = "Bash"
          /\ proc[p].lockStartTime = EnvQuantum
          /\ proc[p].prompts > 0

\* The cascade state of the key is absent, unreadable or older than the window.
NoCascade ==
    \/ ~cascadeFile.exists
    \/ cascadeFile.kind # "state"
    \/ now - cascadeFile.createdAt > REJECT_CASCADE_WINDOW_MS
ExpiredCascade ==
    /\ cascadeFile.exists
    /\ cascadeFile.kind = "state"
    /\ now - cascadeFile.createdAt > REJECT_CASCADE_WINDOW_MS

\* C30: a request that reads a cascade state that is absent, unreadable or
\* older than the window is not auto-rejected: it sends the decision prompt
\* (or fails open when the prompt cannot be sent), and the read removes an
\* expired state file.
C30_StaleCascadeIsNoCascade ==
    [][ \A p \in Procs :
          ( proc[p].pc = "locked" /\ proc'[p].pc # "locked" ) =>
             /\ NoCascade =>
                   /\ proc'[p].nstate # "CascadeRejected"
                   /\ \/ /\ proc'[p].nstate = "WaitingDecision"
                         /\ proc'[p].prompts = proc[p].prompts + 1
                      \/ proc'[p].nstate = "Error"
             /\ ExpiredCascade => cascadeFile' = NoFile
      ]_vars

\* C30 witness: one request was auto-rejected by the state of an earlier
\* rejection when the state was exactly as old as the window; the other one
\* read it 100 ms later, removed it, and waits for the operator's decision.
C30_Witness ==
    \E p, q \in Procs :
        /\ proc[q].nstate = "CascadeRejected"
        /\ proc[q].pc = "done"
        /\ proc[p].nstate = "WaitingDecision"
        /\ proc[p].startTime = 1
        /\ now = 1
        /\ cascadeFile = NoFile

\* C27 (as claimed; the code sends no notice): an input the operator gives
\* to the prompt of an expired request changes nothing of the requests, of the
\* files and of the rejection log, and is answered by an 'already expired'
\* notice.
C27_LateInputIsIgnoredAndAnswered ==
    [][ \A p \in Procs :
          proc'[p].lateInputs = proc[p].lateInputs + 1 =>
             /\ \A q \in Procs : q # p => proc'[q] = proc[q]
             /\ proc'[p].output = proc[p].output
             /\ proc'[p].nstate = proc[p].nstate
             /\ UNCHANGED << files, operator >>
             /\ proc'[p].lateNotices = proc[p].lateNotices + 1
      ]_vars

\* C28 (as claimed; the paths of two keys can be one path): a negotiation
\* waits only on a token of its own key, is auto-rejected only by the cascade
\* state of a rejection of its own key, and changes only the cascade state of
\* its own key.
C28_DifferentKeysAreIndependent ==
    [][ \A p \in Procs :
          /\ ( proc[p].pc = "acquire" /\ proc'[p].pc = "lock_stat" ) =>
                LockKey(lockFile.owner) = LockKey(p)
          /\ ( proc[p].pc = "locked" /\ proc'[p].nstate = "CascadeRejected" ) =>
                LockKey(cascadeFile.requestId) = LockKey(p)
          /\ ( proc'[p] # proc[p] /\ cascadeFile' # cascadeFile /\ cascadeFile.exists ) =>
                LockKey(cascadeFile.requestId) = LockKey(p)
      ]_vars

\* C31 (as claimed; the cache of a session id derived from cwd is never
\* written): a request for a tool that an earlier request of the session,
\* identified by session_id, by CLAUDE_SESSION_ID or by cwd alone, got
\* approved for the session is approved without a prompt.
C31_SessionOfCwdHonoursApproval ==
    \A p \in Procs :
        ( /\ proc[p].pc # "init"
          /\ proc[p].approvedAtStart
          /\ proc[p].tool # "AskUserQuestion" ) =>
            /\ proc[p].nstate = "CacheHit"
            /\ proc[p].prompts = 0

\* C32: the token of a request that has not yet released its lock is removed
\* only by the release of that request: not by the force-clear of a waiter,
\* and not by the release of a request whose own token was force-cleared.
C32_LiveTokenRemovedOnlyByOwner ==
    [][ \A q \in Procs :
          ( /\ lockFile.exists
            /\ lockFile.owner = q
            /\ proc[q].holdsLock
            /\ lockFile' # lockFile ) =>
              /\ ~proc'[q].holdsLock
              /\ \A p \in Procs : p # q => proc'[p] = proc[p]
      ]_vars

\* The session cache approves the tool: the record is under 24 hours old and
\* lists it.
CacheApproves(toolName) ==
    /\ sessionCache.exists
    /\ sessionCache.kind = "cache"
    /\ now - sessionCache.createdAt < SessionCacheTtlMs
    /\ toolName \in sessionCache.allowedTools

\* C33: a request for a tool the session cache approves ends in its first
\* step as allow, without waiting for the user lock and without a prompt,
\* whether or not the lock is held and unexpired cascade state exists, and
\* that step leaves the lock token, the cascade state and the rejection log
\* as they are.
C33_CacheHitBeforeLockAndCascade ==
    [][ \A p \in Procs :
          ( /\ proc[p].pc = "init"
            /\ proc'[p].pc # "init"
            /\ proc'[p].tool # "AskUserQuestion"
            /\ CacheApproves(proc'[p].tool) ) =>
              /\ proc'[p].pc = "done"
              /\ proc'[p].nstate = "CacheHit"
              /\ proc'[p].output = OutputResult(TRUE, NoMessage, NoMessage)
              /\ proc'[p].prompts = 0
              /\ ~proc'[p].keyed
              /\ ~proc'[p].holdsLock
              /\ UNCHANGED << lockFile, cascadeFile, logFiles >>
      ]_vars

\* C33 witness: a request for Bash was approved by the session cache when
\* another request held the user lock, and the cascade state of a rejection
\* is still within its window.
C33_Witness ==
    \E p, q \in Procs :
        /\ p # q
        /\ Ended(p)
        /\ proc[p].nstate = "CacheHit"
        /\ proc[p].lockedAtStart
        /\ proc[q].holdsLock
        /\ lockFile.exists
        /\ lockFile.owner = q
        /\ CascadeInWindow.exists

\* C34: a cascade auto-reject ends the request with the cascade state and
\* the rejection log as they were: createdAt is not rewritten and no line is
\* appended; every cascade state that is written is written by a request the
\* operator rejected, so auto-rejects do not extend the window.
C34_AutoRejectLeavesCascadeAndLog ==
    [][ \A p \in Procs :
          /\ ( proc[p].nstate # "CascadeRejected" /\ proc'[p].nstate = "CascadeRejected" ) =>
                /\ cascadeFile' = cascadeFile
                /\ UNCHANGED logFiles
                /\ proc'[p].pc = "done"
                /\ proc'[p].appended = 0
          /\ ( proc[p].nstate = "CascadeRejected" ) =>
                /\ proc'[p] = proc[p]
          /\ ( proc'[p] # proc[p] /\ cascadeFile' # cascadeFile /\ cascadeFile'.exists ) =>
                /\ proc[p].nstate \in {"RejectedWithReason", "RejectedNoReason"}
                /\ cascadeFile'.createdAt = now
      ]_vars

\* C34 witness: a request was auto-rejected by the state of a rejection made
\* one window ago; the state still has the createdAt of that rejection and
\* the log has no line.
C34_Witness ==
    \E p \in Procs :
        /\ Ended(p)
        /\ proc[p].nstate = "CascadeRejected"
        /\ cascadeFile.exists
        /\ cascadeFile.requestId = 0
        /\ cascadeFile.createdAt = 0 - REJECT_CASCADE_WINDOW_MS
        /\ ~logFile.exists

\* C35: from some moment on every run of the hook that was started has ended
\* and stays ended; a run that has ended has written one decision object, allow
\* or deny; before that it has written none, and it never writes a second one.
C35_EveryRunWritesOneDecision ==
    /\ [](\A p \in Procs :
            /\ proc[p].outputs = (IF Ended(p) THEN 1 ELSE 0)
            /\ Ended(p) => proc[p].output.behavior \in {"allow", "deny"})
    /\ <>[](\A p \in Procs : proc[p].pc = "init" \/ Ended(p))

\* C35 witness: one request was denied by the operator and the other one, which
\* waited for the lock until its timeout, failed open; each wrote one decision.
C35_Witness ==
    \E p, q \in Procs :
        /\ Ended(p)
        /\ proc[p].nstate \in {"RejectedWithReason", "RejectedNoReason"}
        /\ proc[p].output.behavior = "deny"
        /\ proc[p].outputs = 1
        /\ Ended(q)
        /\ proc[q].nstate = "LockTimeout"
        /\ proc[q].output.behavior = "allow"
        /\ proc[q].outputs = 1

\* The entries of the rejection log, over the active file and the rotated
\* generations, and the cascade state that a request of this run wrote.
EntriesOfFile(file) == { LinesOfFile(file)[i] : i \in 1..Len(LinesOfFile(file)) }
LogEntries ==
    EntriesOfFile(logFile) \cup UNION { EntriesOfFile(logRotated[g]) : g \in DOMAIN logRotated }
CascadeWritten ==
    cascadeFile.exists /\ cascadeFile.kind = "state" /\ cascadeFile.requestId \in Procs
SourceAgrees(reason, reasonSource) ==
    /\ reasonSource = "user_input" => reason # <<>>
    /\ reasonSource \in {"explicit_skip", "timeout"} => reason = <<>>
TimeoutKept(p, reasonSource) ==
    proc[p].response.reasonSource = "timeout" => reasonSource = "timeout"

\* C36 (as claimed; the masked reason of a log entry can be longer than the
\* limit): in every entry of the rejection log and in every cascade state the
\* hook writes, user_input comes with a non-empty reason, explicit_skip and
\* timeout with an empty one, a timeout of the provider stays timeout, and
\* the reason is no longer than DMPLZ_REJECT_REASON_MAX_CHARS.
C36_ReasonAndSourceAgreeWithinLimit ==
    /\ \A e \in LogEntries :
          /\ SourceAgrees(e.reason, e.reason_source)
          /\ TimeoutKept(e.request_id, e.reason_source)
          /\ Len(e.reason) <= rejectReasonMaxChars
    /\ CascadeWritten =>
          /\ SourceAgrees(cascadeFile.reason, cascadeFile.reasonSource)
          /\ TimeoutKept(cascadeFile.requestId, cascadeFile.reasonSource)
          /\ Len(cascadeFile.reason) <= rejectReasonMaxChars

\* C36 (amended): as above, except that the limit bounds the reason before it
\* is masked: the cascade state holds that reason, no longer than
\* DMPLZ_REJECT_REASON_MAX_CHARS, and the log entry holds its masked form,
\* which is empty exactly when the reason is.
C36_ReasonAndSourceAgreeLimitBeforeMask ==
    /\ \A e \in LogEntries :
          LET reason == NormalizeRejectReason(proc[e.request_id].response.reason,
                                              rejectReasonMaxChars)
          IN  /\ SourceAgrees(e.reason, e.reason_source)
              /\ TimeoutKept(e.request_id, e.reason_source)
              /\ Len(reason) <= rejectReasonMaxChars
              /\ e.reason = MaskSensitiveText(reason)
    /\ CascadeWritten =>
          /\ SourceAgrees(cascadeFile.reason, cascadeFile.reasonSource)
          /\ TimeoutKept(cascadeFile.requestId, cascadeFile.reasonSource)
          /\ Len(cascadeFile.reason) <= rejectReasonMaxChars
          /\ cascadeFile.reason =
                NormalizeRejectReason(proc[cascadeFile.requestId].response.reason,
                                      rejectReasonMaxChars)

\* C36 witness: the operator typed token=a under a limit of seven characters;
\* the cascade state holds the seven characters and is user_input, the log
\* entry holds token=***, nine characters.
C36_Witness ==
    /\ rejectReasonMaxChars = SecretMaxChars
    /\ CascadeWritten
    /\ cascadeFile.reason = SecretReason
    /\ cascadeFile.reasonSource = "user_input"
    /\ \E e \in LogEntries :
          /\ e.reason = <<"t", "o", "k", "e", "n", "=", "*", "*", "*">>
          /\ e.reason_source = "user_input"

\* The kinds of reaction that the operator has put on the prompt of request p,
\* and the outcome that a poll of the prompt returned.
ReactionKinds(p) == Range(signals[p])
PollOutcome(r) ==
    IF r.pc = "d_reason" THEN "reject"
    ELSE IF r.pc = "respond" THEN r.response.type
    ELSE None

\* C37: a Discord poll that finds reactions of two or more kinds from the
\* operator on the prompt returns one outcome: approve if the approve reaction
\* is among them, else approve_session if that one is, else reject, in
\* whatever order the reactions were added.
C37_DiscordReactionPriority ==
    [][ \A p \in Procs :
          ( /\ provider = "discord"
            /\ proc[p].pc = "d_poll"
            /\ proc'[p].pc \in {"d_reason", "respond", "done"}
            /\ proc'[p].nstate \notin {"Expired", "Error"}
            /\ Cardinality(ReactionKinds(p)) >= 2 )
          => PollOutcome(proc'[p]) =
                IF "approve" \in ReactionKinds(p) THEN "approve"
                ELSE IF "approve_session" \in ReactionKinds(p) THEN "approve_session"
                ELSE "reject"
      ]_vars

\* C37 witness: the operator added the reject reaction and then the approve
\* reaction before the poll; the request was approved.
C37_Witness ==
    \E p \in Procs :
        /\ provider = "discord"
        /\ proc[p].pc = "respond"
        /\ proc[p].response.type = "approve"
        /\ proc[p].reactions = <<"reject", "approve">>

\* C38: while the lock file of the rejection log that a dead appender left is
\* there, nothing removes it and the log gets no line; an append leaves
\* withLogLock only with the lock timeout, LogLockTimeoutMs after it started,
\* the failure is reported on stderr, and the rejection is written as deny.
C38_StaleLogLockTimesOutEveryAppend ==
    [][ logLockFile =>
          /\ logLockFile'
          /\ UNCHANGED << logFile, logRotated >>
          /\ \A p \in Procs :
                /\ ( proc[p].pc = "log_lock" /\ proc'[p].pc # "log_lock" ) =>
                      /\ proc'[p].pc = "cascade_write"
                      /\ now - proc[p].logStartTime >= LogLockTimeoutMs
                      /\ now - proc[p].logStartTime < LogLockTimeoutMs + LogLockPollMs
                      /\ DiagLogFailed \in proc'[p].stderr
                      /\ proc'[p].appended = 0
                /\ ( proc[p].pc = "cascade_write" /\ proc'[p].pc # "cascade_write" ) =>
                      /\ Ended(p)'
                      /\ proc'[p].output.behavior = "deny"
      ]_vars

\* C38 witness: on a host with the stale lock file two rejections have ended
\* as deny, each after the lock timeout, and the log does not exist.
C38_Witness ==
    /\ logLockFile
    /\ ~logFile.exists
    /\ \A p \in Procs :
          /\ Ended(p)
          /\ proc[p].response.type = "reject"
          /\ proc[p].output.behavior = "deny"
          /\ DiagLogFailed \in proc[p].stderr
          /\ proc[p].appended = 0

\* C39 (as claimed; writeCascadeState contradicts it): the files that the hook
\* writes hold the reason of a rejection in its masked form only, the entry of
\* the rejection log and the cascade state alike; the reason as the operator
\* gave it is in the deny message of the output alone.
C39_ReasonOnDiskIsMasked ==
    /\ \A e \in LogEntries :
          e.reason = MaskSensitiveText(NormalizedReason(proc[e.request_id].response))
    /\ CascadeWritten =>
          cascadeFile.reason =
              MaskSensitiveText(NormalizedReason(proc[cascadeFile.requestId].response))
    /\ \A p \in Procs :
          ( Ended(p) /\ proc[p].nstate = "RejectedWithReason" ) =>
              proc[p].output.message = MsgReason(NormalizedReason(proc[p].response))

\* The tools that the session cache allows at this moment.
AllowedTools == { toolName \in Tools : IsToolAllowedInSession(toolName) }

\* C40 (as claimed; the unlocked read-modify-write of saveSessionCache
\* contradicts it): the set of tools allowed for the session only grows, and a
\* tool whose recording has completed is allowed from then on, however the
\* recordings of other tools for the session interleave with it.
C40_AllowedToolsOnlyGrow ==
    [][ /\ AllowedTools \subseteq AllowedTools'
        /\ \A p \in Procs :
              ( Ended(p)' /\ proc'[p].nstate = "ApprovedSession" ) =>
                  proc'[p].tool \in AllowedTools'
      ]_vars

====
